---- MODULE Spec2Model ----
(***************************************************************************)
(* State-machine model of the nastro event stores: the in-memory ring      *)
(* buffer (package ephemeral), the sqlite store and the badger store,      *)
(* together with the Replace protocol they share.                          *)
(***************************************************************************)
EXTENDS Integers, Sequences, FiniteSets, TLC

VARIABLES
    events,          \* ephemeral.Store.events: the slots, 1-indexed here
    write,           \* ephemeral.Store.write: 0-based write cursor
    capacity,        \* ephemeral.Store.capacity
    validateEvent,   \* Store.validateEvent: the kinds the event policy rejects
    sanitizeFilters, \* Store.sanitizeFilters: which filter policy is installed
    retries,         \* sqlite Store.retries: retries after "database is locked"
    crashed,         \* TRUE once a call has panicked (the Go process is gone)
    last,            \* the last completed call: arguments, results, state before
    log,             \* the events passed to the calls so far (scenario specs)
    savedIdentity,   \* TRUE once Save was called with a replaceable/addressable event
    mu,              \* sync.RWMutex of the ring buffer: 0 free, p held by caller p
    pc,              \* position of every concurrent caller
    arg,             \* the event every concurrent caller passes
    loc,             \* the locals of every concurrent caller
    table,           \* sqlite: the rows of table events
    kv,              \* badger: the events the engine holds
    wg,              \* badger Count: the counter of its sync.WaitGroup
    counter,         \* badger Count: its atomic.Int64
    main             \* badger Count: position of the calling goroutine

ring == <<events, write, capacity>>
policies == <<validateEvent, sanitizeFilters, retries>>
callers == <<mu, pc, arg, loc>>
history == <<log, savedIdentity>>
waitgroup == <<wg, counter, main>>
vars == <<events, write, capacity, validateEvent, sanitizeFilters, retries, crashed,
          last, log, savedIdentity, mu, pc, arg, loc, table, kv, wg, counter, main>>

----------------------------------------------------------------------------
(* Bounds of the model *)

\* Largest capacity of the ring buffer in Spec.
MaxCap == 2
\* Largest number of retries the sqlite store is built with.
MaxRetries == 2
\* Longest list of filters passed to a function of filters.
MaxFilters == 3
\* Largest MaxLimit of the QueryLimits drawn.
MaxMaxLimit == 3
\* Largest capacity of the ring buffer in SpecQuery and SpecSaves.
MaxQueryCap == 3
\* Largest created_at of the events of the scenario specifications.
MaxTime == 2
\* Longest sequence of calls in SpecReplaceSeq and SpecSaves.
MaxCalls == 4
\* Number of concurrent callers.
NProcs == 2

----------------------------------------------------------------------------
(* Events *)

NoD == "<no d tag>"

\* nostr.Event, reduced to the fields the stores read. The id is derived from
\* the content, so two events with one id are the same event.
EventId(k, p, t, d, c) ==
    1 + t + 10 * (CASE d = NoD -> 0 [] d = "" -> 1 [] OTHER -> 2)
      + 100 * (IF p = "a" THEN 0 ELSE 1)
      + 1000 * (CASE k = 0 -> 0 [] k = 1 -> 1 [] OTHER -> 2)
      + 10000 * (IF c = "" THEN 0 ELSE 1)

MkEventC(k, p, t, d, c) ==
    [id |-> EventId(k, p, t, d, c), kind |-> k, pubkey |-> p, created_at |-> t,
     d |-> d, content |-> c]

MkEvent(k, p, t, d) == MkEventC(k, p, t, d, "")

\* An empty slot (a nil *nostr.Event).
Nil == [id |-> 0, kind |-> -1, pubkey |-> "", created_at |-> 0, d |-> NoD, content |-> ""]

Times == 0..MaxTime

\* The events the calls of Spec draw from: two categories of replaceable events,
\* two of addressable events (no d tag, d = "x") and a regular event.
Events ==
    {MkEvent(0, "a", 0, NoD), MkEvent(0, "a", 1, NoD), MkEvent(0, "b", 1, NoD),
     MkEvent(30000, "a", 0, "x"), MkEvent(30000, "a", 1, "x"),
     MkEvent(30000, "a", 1, NoD), MkEvent(1, "a", 0, NoD)}

\* The events the calls of SpecQuery and SpecSaves draw from: regular events of
\* every created_at, and one replaceable event sharing a created_at with one.
QueryEvents == {MkEvent(1, "a", t, NoD) : t \in 0..(MaxTime + 1)} \cup {MkEvent(0, "b", 1, NoD)}

\* The events the calls of SpecReplaceSeq draw from: for each of four identity
\* categories, two events (of different content, hence id) of every created_at.
SeqEvents ==
    {MkEventC(0, p, t, NoD, c) : p \in {"a", "b"}, t \in Times, c \in {"", "c"}}
        \cup {MkEventC(30000, "a", t, d, c) : t \in Times, d \in {NoD, "x"}, c \in {"", "c"}}

\* nostr.Tags.GetD: the value of the first "d" tag, "" when there is none.
GetD(e) == IF e.d = NoD THEN "" ELSE e.d

IsReplaceableKind(k) == k = 0 \/ k = 3 \/ (10000 <= k /\ k < 20000)

IsAddressableKind(k) == 30000 <= k /\ k < 40000

IsValidReplacement(k) == IsReplaceableKind(k) \/ IsAddressableKind(k)

\* isReplacementCandidate comparing the ids where it should compare the authors.
isReplacementCandidateById(e1, e2) ==
    CASE IsReplaceableKind(e1.kind) -> e1.kind = e2.kind /\ e1.id = e2.id
      [] IsAddressableKind(e1.kind) ->
            e1.kind = e2.kind /\ e1.id = e2.id /\ GetD(e1) = GetD(e2)
      [] OTHER -> FALSE

isReplacementCandidate(e1, e2) ==
    CASE IsReplaceableKind(e1.kind) -> e1.kind = e2.kind /\ e1.pubkey = e2.pubkey
      [] IsAddressableKind(e1.kind) ->
            e1.kind = e2.kind /\ e1.pubkey = e2.pubkey /\ GetD(e1) = GetD(e2)
      [] OTHER -> FALSE

\* The identity category of the data model, stated independently of the code:
\* (kind, author) for replaceable kinds, (kind, author, d value) for addressable.
Category(e) ==
    IF IsReplaceableKind(e.kind) THEN <<"replaceable", e.kind, e.pubkey, "">>
    ELSE IF IsAddressableKind(e.kind) THEN <<"addressable", e.kind, e.pubkey, GetD(e)>>
    ELSE <<"regular", e.id, "", "">>

----------------------------------------------------------------------------
(* Helpers on sequences *)

Min(a, b) == IF a < b THEN a ELSE b

SetMax(S) == CHOOSE x \in S : \A y \in S : y <= x

Occupied(evs) == {i \in 1..Len(evs) : evs[i] # Nil}

\* Store.Size
Size(evs) == Cardinality(Occupied(evs))

StoredSet(evs) == {evs[i] : i \in Occupied(evs)}

InCategory(evs, c) == {i \in Occupied(evs) : Category(evs[i]) = c}

EmptySlots(n) == [i \in 1..n |-> Nil]

\* The occupied slots of evs, in slot order, as a sequence.
RECURSIVE Compact(_)
Compact(evs) ==
    IF evs = <<>> THEN <<>>
    ELSE IF Head(evs) = Nil THEN Compact(Tail(evs))
    ELSE <<Head(evs)>> \o Compact(Tail(evs))

----------------------------------------------------------------------------
(* The ring buffer's operations, as functions of the store s =            *)
(* [events, write, capacity] *)

Store(evs, w, c) == [events |-> evs, write |-> w, capacity |-> c]

Here == Store(events, write, capacity)

\* New(WithCapacity(n)): n empty slots, cursor 0.
New(n) == Store(EmptySlots(n), 0, n)

\* The event policy: validateEvent(event) returns an error for the rejected kinds.
Rejected(policy, e) == e.kind \in policy

\* The slot write of Store.Save without the advance of the cursor.
InsertNoAdvance(s, e) ==
    IF s.write >= Len(s.events) THEN [s |-> s, panic |-> TRUE]
    ELSE [s |-> Store([s.events EXCEPT ![s.write + 1] = e], s.write, s.capacity),
          panic |-> FALSE]

\* s.events[s.write] = event; s.write = (s.write + 1) % s.capacity.
\* Indexing past the last slot panics before anything is written.
Insert(s, e) ==
    IF s.write >= Len(s.events) THEN [s |-> s, panic |-> TRUE]
    ELSE [s |-> Store([s.events EXCEPT ![s.write + 1] = e],
                      (s.write + 1) % s.capacity, s.capacity),
          panic |-> FALSE]

\* Store.Save
RingSave(s, policy, e) ==
    IF Rejected(policy, e) THEN [s |-> s, err |-> "policy"]
    ELSE LET r == Insert(s, e) IN [s |-> r.s, err |-> IF r.panic THEN "panic" ELSE "nil"]

\* The first occupied slot holding a replacement candidate of e; 0 when none.
FirstCandidate(evs, e) ==
    LET C == {i \in Occupied(evs) : isReplacementCandidate(e, evs[i])}
    IN IF C = {} THEN 0 ELSE CHOOSE i \in C : \A j \in C : i <= j

\* The comparison of Store.Replace letting an equal created_at through.
NewerOrEqual(e, stored) == e.created_at >= stored.created_at

\* event.CreatedAt > stored.CreatedAt
Newer(e, stored) == e.created_at > stored.created_at

\* Store.Replace once the kind and the policy have let the event through: the
\* scan for a candidate, then the swap in place or the insert at the cursor.
RingReplaceScan(s, e) ==
    LET i == FirstCandidate(s.events, e) IN
    IF i # 0
    THEN IF Newer(e, s.events[i])
         THEN [s |-> Store([s.events EXCEPT ![i] = e], s.write, s.capacity),
               stored |-> TRUE, err |-> "nil"]
         ELSE [s |-> s, stored |-> FALSE, err |-> "nil"]
    ELSE LET r == Insert(s, e) IN
         IF r.panic THEN [s |-> s, stored |-> FALSE, err |-> "panic"]
         ELSE [s |-> r.s, stored |-> TRUE, err |-> "nil"]

\* Store.Replace consulting the event policy before it looks at the kind.
RingReplacePolicyFirst(s, policy, e) ==
    IF Rejected(policy, e) THEN [s |-> s, stored |-> FALSE, err |-> "policy"]
    ELSE IF ~IsValidReplacement(e.kind)
    THEN [s |-> s, stored |-> FALSE, err |-> "ErrInvalidReplacement"]
    ELSE RingReplaceScan(s, e)

\* Store.Replace
RingReplace(s, policy, e) ==
    IF ~IsValidReplacement(e.kind)
    THEN [s |-> s, stored |-> FALSE, err |-> "ErrInvalidReplacement"]
    ELSE IF Rejected(policy, e) THEN [s |-> s, stored |-> FALSE, err |-> "policy"]
    ELSE RingReplaceScan(s, e)

\* slices.IndexFunc(s.events, event != nil && event.ID == id); 0 when absent.
IndexOfId(evs, id) ==
    LET C == {i \in Occupied(evs) : evs[i].id = id}
    IN IF C = {} THEN 0 ELSE CHOOSE i \in C : \A j \in C : i <= j

\* A Delete that empties every slot holding the id.
RingDeleteAll(s, id) ==
    Store([i \in 1..Len(s.events) |->
              IF s.events[i] # Nil /\ s.events[i].id = id THEN Nil ELSE s.events[i]],
          s.write, s.capacity)

\* Store.Delete
RingDelete(s, id) ==
    LET i == IndexOfId(s.events, id) IN
    IF i = 0 THEN s ELSE Store([s.events EXCEPT ![i] = Nil], s.write, s.capacity)

\* A Resize that keeps the last occupied events where it should keep the first.
RingResizeKeepLast(s, n) ==
    LET all == Compact(s.events)
        k == Min(Len(all), n)
        kept == SubSeq(all, Len(all) - k + 1, Len(all))
    IN Store([i \in 1..n |-> IF i <= k THEN kept[i] ELSE Nil], k, n)

\* Store.Resize: the first occupied events, in slot order, up to the new
\* capacity; the cursor counts the copied events and is left at n when the
\* loop breaks on reaching the capacity.
RingResize(s, n) ==
    LET kept == Compact(s.events)
        k == Min(Len(kept), n)
    IN Store([i \in 1..n |-> IF i <= k THEN kept[i] ELSE Nil], k, n)

----------------------------------------------------------------------------
(* Filters and the ring buffer's Query *)

NoTime == -1

\* nostr.Filter: an empty set is a nil slice (no constraint); dvals are the
\* values asked of tag "d" ({} when the filter names no tag); since and until
\* are NoTime when nil.
Filter(ids, kinds, authors, dvals, since, until, limit, limitZero) ==
    [ids |-> ids, kinds |-> kinds, authors |-> authors, dvals |-> dvals,
     since |-> since, until |-> until, limit |-> limit, limitZero |-> limitZero]

FAll == Filter({}, {}, {}, {}, NoTime, NoTime, 0, FALSE)
FAllLimited == Filter({}, {}, {}, {}, NoTime, NoTime, MaxQueryCap + 1, FALSE)
FKind0 == Filter({}, {0}, {}, {}, NoTime, NoTime, 1, FALSE)
FZero == Filter({}, {}, {"a"}, {}, NoTime, NoTime, 0, TRUE)

QFilters == {FAll, FAllLimited, FKind0, FZero}

FilterLists == {<<>>} \cup {<<f>> : f \in QFilters}
                 \cup {<<f, g>> : f \in {FAllLimited, FKind0}, g \in {FAllLimited, FKind0}}

\* nostr.Filter.Matches
Matches(f, e) ==
    /\ f.ids = {} \/ e.id \in f.ids
    /\ f.kinds = {} \/ e.kind \in f.kinds
    /\ f.authors = {} \/ e.pubkey \in f.authors
    /\ f.dvals = {} \/ (e.d # NoD /\ e.d \in f.dvals)
    /\ f.since = NoTime \/ e.created_at >= f.since
    /\ f.until = NoTime \/ e.created_at <= f.until

\* The filters of fs that do not have LimitZero set, in order.
RECURSIVE RemoveZeros(_)
RemoveZeros(fs) ==
    IF fs = <<>> THEN <<>>
    ELSE (IF Head(fs).limitZero THEN <<>> ELSE <<Head(fs)>>) \o RemoveZeros(Tail(fs))

\* A policy that checks the limits and returns its input whole.
PolicyKeepingZeros(fs) ==
    IF \E i \in 1..Len(fs) : ~fs[i].limitZero /\ fs[i].limit < 1
    THEN [filters |-> <<>>, err |-> "ErrUnspecifiedLimit"]
    ELSE [filters |-> fs, err |-> "nil"]

\* The loop of nastro.DefaultFilterPolicy over the filters left, result being
\* the filters appended so far; the nil slice returned with the error is <<>>.
RECURSIVE PolicyLoop(_, _)
PolicyLoop(fs, result) ==
    IF fs = <<>> THEN [filters |-> result, err |-> "nil"]
    ELSE IF ~Head(fs).limitZero
         THEN IF Head(fs).limit < 1
              THEN [filters |-> <<>>, err |-> "ErrUnspecifiedLimit"]
              ELSE PolicyLoop(Tail(fs), Append(result, Head(fs)))
         ELSE PolicyLoop(Tail(fs), result)

\* nastro.DefaultFilterPolicy
DefaultFilterPolicy(fs) == PolicyLoop(fs, <<>>)

PassThroughPolicy(fs) == [filters |-> fs, err |-> "nil"]

\* The policy New installs when no WithFilterPolicy option is given:
\* func(...nostr.Filter) (nostr.Filters, error) { return nil, nil }
NewFilterPolicy(fs) == [filters |-> <<>>, err |-> "nil"]

FilterPolicies == {"new", "default", "custom"}

\* s.sanitizeFilters(filters...)
Sanitize(policy, fs) ==
    CASE policy = "new" -> NewFilterPolicy(fs)
      [] policy = "default" -> DefaultFilterPolicy(fs)
      [] OTHER -> PassThroughPolicy(fs)

\* The events of evs, in slot order, that filter f matches.
MatchesOf(evs, f) ==
    Compact([i \in 1..Len(evs) |-> IF evs[i] # Nil /\ Matches(f, evs[i]) THEN evs[i] ELSE Nil])

\* A scan that collects filter by filter, an event once per filter matching it.
RECURSIVE CollectPerFilter(_, _)
CollectPerFilter(evs, fs) ==
    IF fs = <<>> THEN <<>>
    ELSE MatchesOf(evs, Head(fs)) \o CollectPerFilter(evs, Tail(fs))

\* The scan of Query: every occupied slot, in slot order, that some filter matches.
Collect(evs, fs) ==
    Compact([i \in 1..Len(evs) |->
                IF evs[i] # Nil /\ \E j \in 1..Len(fs) : Matches(fs[j], evs[i])
                THEN evs[i] ELSE Nil])

Orderings(n) == {p \in [1..n -> 1..n] : \A i, j \in 1..n : i # j => p[i] # p[j]}

\* slices.SortFunc by created_at descending: the order of events with equal
\* created_at is whatever the (unstable) sort leaves.
SortOutcomes(coll) ==
    LET n == Len(coll)
        R == {[i \in 1..n |-> coll[p[i]]] : p \in Orderings(n)}
    IN {r \in R : \A i \in 1..(n - 1) : r[i].created_at >= r[i + 1].created_at}

\* Store.Query: the results it may return.
RingQuery(s, policy, fs) ==
    LET san == Sanitize(policy, fs) IN
    IF san.err # "nil" THEN {[events |-> <<>>, err |-> san.err]}
    ELSE {[events |-> r, err |-> "nil"] : r \in SortOutcomes(Collect(s.events, san.filters))}

----------------------------------------------------------------------------
(* The calls, and what the model remembers of the last one *)

NoFilters == <<>>

Call(op, e, id, n, fs, stored, err, result, pre) ==
    [op |-> op, ev |-> e, id |-> id, n |-> n, filters |-> fs, stored |-> stored,
     err |-> err, result |-> result, pre |-> pre]

NoCall == Call("none", Nil, 0, 0, NoFilters, FALSE, "nil", <<>>, New(1))

EventPolicies == {{}, {1, 30000}}

InitIdleCallers ==
    /\ mu = 0
    /\ pc = [p \in 1..NProcs |-> "idle"]
    /\ arg = [p \in 1..NProcs |-> Nil]
    /\ loc = [p \in 1..NProcs |-> 0]

InitStore(caps, eventPolicies, filterPolicies) ==
    /\ \E c \in caps :
          /\ capacity = c
          /\ events = EmptySlots(c)
    /\ write = 0
    /\ validateEvent \in eventPolicies
    /\ retries = 0
    /\ wg = 0
    /\ counter = 0
    /\ main = "idle"
    /\ sanitizeFilters \in filterPolicies
    /\ crashed = FALSE
    /\ last = NoCall
    /\ log = <<>>
    /\ savedIdentity = FALSE
    /\ InitIdleCallers
    /\ table = {}
    /\ kv = {}

\* New(WithCapacity(c), WithEventPolicy(..)) for the capacities and policies of Spec.
InitRing == InitStore(1..MaxCap, EventPolicies, {"new"})

\* New(WithCapacity(c)) or New(WithCapacity(c), WithFilterPolicy(..)).
InitQuery == InitStore(1..MaxQueryCap, {{}}, FilterPolicies)

SetRing(s) ==
    /\ events' = s.events
    /\ write' = s.write
    /\ capacity' = s.capacity

DoSave(e) ==
    /\ ~crashed
    /\ LET r == RingSave(Here, validateEvent, e) IN
       /\ SetRing(r.s)
       /\ crashed' = (r.err = "panic")
       /\ last' = Call("Save", e, e.id, 0, NoFilters, FALSE, r.err, <<>>, Here)

DoReplace(e) ==
    /\ ~crashed
    /\ LET r == RingReplace(Here, validateEvent, e) IN
       /\ SetRing(r.s)
       /\ crashed' = (r.err = "panic")
       /\ last' = Call("Replace", e, e.id, 0, NoFilters, r.stored, r.err, <<>>, Here)

Save(e) ==
    /\ DoSave(e)
    /\ savedIdentity' = (savedIdentity \/ IsValidReplacement(e.kind))
    /\ UNCHANGED <<policies, waitgroup, log, callers, table, kv>>

Replace(e) ==
    /\ DoReplace(e)
    /\ UNCHANGED <<policies, waitgroup, history, callers, table, kv>>

Delete(id) ==
    /\ ~crashed
    /\ SetRing(RingDelete(Here, id))
    /\ last' = Call("Delete", Nil, id, 0, NoFilters, FALSE, "nil", <<>>, Here)
    /\ UNCHANGED <<policies, waitgroup, crashed, history, callers, table, kv>>

Resize(n) ==
    /\ ~crashed
    /\ SetRing(RingResize(Here, n))
    /\ last' = Call("Resize", Nil, 0, n, NoFilters, FALSE, "nil", <<>>, Here)
    /\ UNCHANGED <<policies, waitgroup, crashed, history, callers, table, kv>>

Query(fs) ==
    /\ ~crashed
    /\ \E r \in RingQuery(Here, sanitizeFilters, fs) :
          last' = Call("Query", Nil, 0, 0, fs, FALSE, r.err, r.events, Here)
    /\ UNCHANGED <<ring, policies, waitgroup, crashed, history, callers, table, kv>>

\* A count of the stored events some filter matches, each counted once.
RingCountDistinct(s, fs) == Len(Collect(s.events, fs))

\* Store.Count: the filters are counted as given, with no filter policy.
RECURSIVE RingCount(_, _)
RingCount(s, fs) ==
    IF fs = <<>> THEN 0
    ELSE Len(MatchesOf(s.events, Head(fs))) + RingCount(s, Tail(fs))

Count(fs) ==
    /\ ~crashed
    /\ last' = Call("Count", Nil, 0, RingCount(Here, fs), fs, FALSE, "nil", <<>>, Here)
    /\ UNCHANGED <<ring, policies, waitgroup, crashed, history, callers, table, kv>>

\* The ring buffer under any sequence of Save, Replace, Delete and Resize.
Next ==
    \/ \E e \in Events : Save(e)
    \/ \E e \in Events : Replace(e)
    \/ \E e \in Events : Delete(e.id)
    \/ \E n \in 1..MaxCap : Resize(n)

Spec == InitRing /\ [][Next]_vars

\* The ring buffer queried after any sequence of Saves.
NextQuery ==
    \/ \E e \in QueryEvents : Save(e)
    \/ \E fs \in FilterLists : Query(fs)

SpecQuery == InitQuery /\ [][NextQuery]_vars

\* The events the calls of SpecFilters draw from: two kinds, two created_at.
FilterEvents ==
    {MkEvent(1, "a", 0, NoD), MkEvent(1, "a", 1, NoD),
     MkEvent(0, "b", 0, NoD), MkEvent(0, "b", 1, NoD)}

\* New(WithCapacity(c)) or New(WithCapacity(c), WithFilterPolicy(..)).
InitFilters == InitStore(1..MaxCap, {{}}, FilterPolicies)

\* The ring buffer queried and counted after any sequence of Saves.
NextFilters ==
    \/ \E e \in FilterEvents : Save(e)
    \/ \E fs \in FilterLists : Query(fs)
    \/ \E fs \in FilterLists : Count(fs)

SpecFilters == InitFilters /\ [][NextFilters]_vars

Logged(e) ==
    /\ Len(log) < MaxCalls
    /\ log' = Append(log, e)
    /\ UNCHANGED <<policies, waitgroup, savedIdentity, callers, table, kv>>

Elems(seq) == {seq[i] : i \in 1..Len(seq)}

\* New(WithCapacity(c)) with the default policies.
InitScenario == InitStore(1..MaxQueryCap, {{}}, {"new"})

\* A sequence of Replace calls whose events all belong to one identity category.
ReplaceSameCategory(e) ==
    /\ log # <<>> => Category(e) = Category(log[1])
    /\ DoReplace(e)
    /\ Logged(e)

NextReplaceSeq == \E e \in SeqEvents : ReplaceSameCategory(e)

SpecReplaceSeq == InitScenario /\ [][NextReplaceSeq]_vars

\* A sequence of Saves of distinct events.
SaveDistinct(e) ==
    /\ e \notin Elems(log)
    /\ DoSave(e)
    /\ Logged(e)

NextSaves == \E e \in QueryEvents : SaveDistinct(e)

SpecSaves == InitScenario /\ [][NextSaves]_vars

\* The events the calls of SpecEvict draw from: two regular events and two
\* replaceable events of one category.
EvictEvents ==
    {MkEvent(1, "a", 0, NoD), MkEvent(1, "a", 1, NoD),
     MkEvent(0, "a", 0, NoD), MkEvent(0, "a", 1, NoD)}

\* A call and the event it passed (Nil for Delete and Resize).
Entry(op, e) == [op |-> op, ev |-> e]

\* The events passed to Save and Replace so far.
Written == {log[k].ev : k \in {j \in 1..Len(log) : log[j].op \in {"Save", "Replace"}}}

Noted(op, e) ==
    /\ Len(log) < MaxCalls
    /\ log' = Append(log, Entry(op, e))

\* Save and Replace of events not passed before, Delete and Resize, each call
\* noted in the order made.
SaveNew(e) ==
    /\ e \notin Written
    /\ DoSave(e)
    /\ Noted("Save", e)
    /\ UNCHANGED <<policies, waitgroup, savedIdentity, callers, table, kv>>

ReplaceNew(e) ==
    /\ e \notin Written
    /\ DoReplace(e)
    /\ Noted("Replace", e)
    /\ UNCHANGED <<policies, waitgroup, savedIdentity, callers, table, kv>>

DeleteNoted(id) ==
    /\ ~crashed
    /\ SetRing(RingDelete(Here, id))
    /\ last' = Call("Delete", Nil, id, 0, NoFilters, FALSE, "nil", <<>>, Here)
    /\ Noted("Delete", Nil)
    /\ UNCHANGED <<policies, waitgroup, crashed, savedIdentity, callers, table, kv>>

ResizeNoted(n) ==
    /\ ~crashed
    /\ SetRing(RingResize(Here, n))
    /\ last' = Call("Resize", Nil, 0, n, NoFilters, FALSE, "nil", <<>>, Here)
    /\ Noted("Resize", Nil)
    /\ UNCHANGED <<policies, waitgroup, crashed, savedIdentity, callers, table, kv>>

InitEvict == InitStore(1..MaxCap, {{}}, {"new"})

NextEvict ==
    \/ \E e \in EvictEvents : SaveNew(e)
    \/ \E e \in EvictEvents : ReplaceNew(e)
    \/ \E e \in EvictEvents : DeleteNoted(e.id)
    \/ \E n \in 1..MaxCap : ResizeNoted(n)

SpecEvict == InitEvict /\ [][NextEvict]_vars

----------------------------------------------------------------------------
(* Concurrent callers of the ring buffer's Replace *)

Procs == 1..NProcs

\* The events the concurrent Replace calls pass: one replaceable category, two
\* of them with the same created_at.
ConcEvents ==
    {MkEvent(0, "a", 0, NoD), MkEvent(0, "a", 1, NoD), MkEvent(0, "a", 2, NoD),
     MkEventC(0, "a", 1, NoD, "c")}

\* An event of another category the store may hold.
OtherEvent == MkEvent(0, "b", 1, NoD)

\* sync.RWMutex.Lock with no regard for the holder.
LockIgnored(m) == TRUE

\* sync.RWMutex.Lock returns once nobody holds the mutex.
LockAvailable(m) == m = 0

Local(i, stored, err) == [pos |-> i, stored |-> stored, err |-> err]

\* A store holding zero or one event of the callers' category, any cursor the
\* store can have (the capacity itself after a Resize that filled every slot),
\* and one Replace call per caller about to start.
InitConcReplace ==
    /\ \E c \in 1..MaxCap :
          /\ capacity = c
          /\ events \in [1..c -> {Nil, OtherEvent} \cup ConcEvents]
          /\ write \in 0..c
    /\ Cardinality({i \in Occupied(events) : events[i] \in ConcEvents}) <= 1
    /\ validateEvent = {}
    /\ retries = 0
    /\ wg = 0
    /\ counter = 0
    /\ main = "idle"
    /\ sanitizeFilters = "new"
    /\ crashed = FALSE
    /\ last = Call("none", Nil, 0, 0, NoFilters, FALSE, "nil", <<>>, Here)
    /\ log = <<>>
    /\ savedIdentity = FALSE
    /\ mu = 0
    /\ pc = [p \in Procs |-> "start"]
    /\ arg \in [Procs -> ConcEvents]
    /\ loc = [p \in Procs |-> Local(0, FALSE, "nil")]
    /\ table = {}
    /\ kv = {}

\* Replace up to s.mu.Lock(): the kind is tested, then the mutex is taken.
ReplaceLock(p) ==
    /\ ~crashed
    /\ pc[p] = "start"
    /\ IF ~IsValidReplacement(arg[p].kind)
       THEN /\ pc' = [pc EXCEPT ![p] = "done"]
            /\ loc' = [loc EXCEPT ![p] = Local(0, FALSE, "ErrInvalidReplacement")]
            /\ UNCHANGED mu
       ELSE /\ LockAvailable(mu)
            /\ mu' = p
            /\ pc' = [pc EXCEPT ![p] = "scan"]
            /\ UNCHANGED loc
    /\ UNCHANGED <<ring, policies, waitgroup, crashed, last, history, arg, table, kv>>

\* The policy and the scan for a candidate, under the mutex.
ReplaceScan(p) ==
    /\ ~crashed
    /\ pc[p] = "scan"
    /\ IF Rejected(validateEvent, arg[p])
       THEN /\ pc' = [pc EXCEPT ![p] = "unlock"]
            /\ loc' = [loc EXCEPT ![p] = Local(0, FALSE, "policy")]
       ELSE /\ pc' = [pc EXCEPT ![p] = "write"]
            /\ loc' = [loc EXCEPT ![p] = Local(FirstCandidate(events, arg[p]), FALSE, "nil")]
    /\ UNCHANGED <<ring, policies, waitgroup, crashed, last, history, mu, arg, table, kv>>

\* The swap in place or the insert at the cursor, under the mutex.
ReplaceWrite(p) ==
    /\ ~crashed
    /\ pc[p] = "write"
    /\ LET i == loc[p].pos IN
       IF i # 0
       THEN /\ IF Newer(arg[p], events[i])
               THEN /\ events' = [events EXCEPT ![i] = arg[p]]
                    /\ loc' = [loc EXCEPT ![p] = Local(i, TRUE, "nil")]
               ELSE /\ UNCHANGED events
                    /\ loc' = [loc EXCEPT ![p] = Local(i, FALSE, "nil")]
            /\ UNCHANGED <<write, capacity, crashed>>
       ELSE LET r == Insert(Here, arg[p]) IN
            /\ SetRing(r.s)
            /\ crashed' = r.panic
            /\ loc' = [loc EXCEPT ![p] = Local(0, ~r.panic, IF r.panic THEN "panic" ELSE "nil")]
    /\ pc' = [pc EXCEPT ![p] = "unlock"]
    /\ UNCHANGED <<policies, waitgroup, last, history, mu, arg, table, kv>>

\* defer s.mu.Unlock() and the return.
ReplaceUnlock(p) ==
    /\ ~crashed
    /\ pc[p] = "unlock"
    /\ mu' = 0
    /\ pc' = [pc EXCEPT ![p] = "done"]
    /\ UNCHANGED <<ring, policies, waitgroup, crashed, last, history, arg, loc, table, kv>>

NextConcReplace ==
    \E p \in Procs :
        \/ ReplaceLock(p)
        \/ ReplaceScan(p)
        \/ ReplaceWrite(p)
        \/ ReplaceUnlock(p)

SpecConcReplace == InitConcReplace /\ [][NextConcReplace]_vars

----------------------------------------------------------------------------
(* Replace calls of one identity category among Saves and Replaces of      *)
(* other events; log holds what is remembered of the category              *)

\* The events of the category followed.
StaleEvents == {MkEvent(0, "a", t, NoD) : t \in 0..MaxTime}

\* Events of other categories: a regular and a replaceable one.
OtherEvents == {MkEvent(1, "b", 0, NoD), MkEvent(0, "b", 0, NoD)}

\* The slot and the created_at of the event of the category a Replace stored
\* last (slot 0 once an insertion has overwritten it), and the greatest
\* created_at a Replace ever stored in the category.
Remembered(slot, t, ever) == [slot |-> slot, t |-> t, ever |-> ever]

\* What is remembered once the slots are evs: the event is forgotten when its
\* slot holds an event of another category.
RememberedAfter(l, evs) ==
    IF l = <<>> \/ l[1].slot = 0 THEN l
    ELSE IF Category(evs[l[1].slot]) = Category(MkEvent(0, "a", 0, NoD)) THEN l
    ELSE <<Remembered(0, l[1].t, l[1].ever)>>

\* Replace of an event of the category.
ReplaceFollowed(e) ==
    /\ ~crashed
    /\ LET r == RingReplace(Here, validateEvent, e)
           i == FirstCandidate(events, e)
           ever == IF log = <<>> \/ log[1].ever < e.created_at
                   THEN e.created_at ELSE log[1].ever
       IN /\ SetRing(r.s)
          /\ crashed' = (r.err = "panic")
          /\ last' = Call("Replace", e, e.id, 0, NoFilters, r.stored, r.err, log, Here)
          /\ log' = IF r.stored
                    THEN <<Remembered(IF i # 0 THEN i ELSE write + 1, e.created_at, ever)>>
                    ELSE log
    /\ UNCHANGED <<policies, waitgroup, savedIdentity, callers, table, kv>>

\* Save of an event of another category.
SaveOther(e) ==
    /\ DoSave(e)
    /\ log' = RememberedAfter(log, events')
    /\ UNCHANGED <<policies, waitgroup, savedIdentity, callers, table, kv>>

\* Replace of an event of another category.
ReplaceOther(e) ==
    /\ DoReplace(e)
    /\ log' = RememberedAfter(log, events')
    /\ UNCHANGED <<policies, waitgroup, savedIdentity, callers, table, kv>>

NextStale ==
    \/ \E e \in StaleEvents : ReplaceFollowed(e)
    \/ \E e \in OtherEvents : SaveOther(e)
    \/ \E e \in OtherEvents : ReplaceOther(e)

SpecStale == InitScenario /\ [][NextStale]_vars

----------------------------------------------------------------------------
(* The ring buffer called with a context that is live or already cancelled: *)
(* no method of the store reads its ctx argument                            *)

Contexts == {"live", "cancelled"}

CancelEvents == {MkEvent(1, "a", 0, NoD), MkEvent(0, "a", 0, NoD), MkEvent(0, "a", 1, NoD)}

CancelFilterLists == {<<FAll>>, <<FKind0>>}

\* The call as last remembers it, with the state of the context passed.
WithContext(c, call) == call @@ [ctx |-> c]

InitCancel == InitStore(1..MaxCap, {{}}, {"custom"})

SaveCtx(c, e) ==
    /\ ~crashed
    /\ LET r == RingSave(Here, validateEvent, e) IN
       /\ SetRing(r.s)
       /\ crashed' = (r.err = "panic")
       /\ last' = WithContext(c, Call("Save", e, e.id, 0, NoFilters, FALSE, r.err, <<>>, Here))
    /\ UNCHANGED <<policies, waitgroup, history, callers, table, kv>>

ReplaceCtx(c, e) ==
    /\ ~crashed
    /\ LET r == RingReplace(Here, validateEvent, e) IN
       /\ SetRing(r.s)
       /\ crashed' = (r.err = "panic")
       /\ last' = WithContext(c, Call("Replace", e, e.id, 0, NoFilters, r.stored, r.err,
                                      <<>>, Here))
    /\ UNCHANGED <<policies, waitgroup, history, callers, table, kv>>

DeleteCtx(c, id) ==
    /\ ~crashed
    /\ SetRing(RingDelete(Here, id))
    /\ last' = WithContext(c, Call("Delete", Nil, id, 0, NoFilters, FALSE, "nil", <<>>, Here))
    /\ UNCHANGED <<policies, waitgroup, crashed, history, callers, table, kv>>

QueryCtx(c, fs) ==
    /\ ~crashed
    /\ \E r \in RingQuery(Here, sanitizeFilters, fs) :
          last' = WithContext(c, Call("Query", Nil, 0, 0, fs, FALSE, r.err, r.events, Here))
    /\ UNCHANGED <<ring, policies, waitgroup, crashed, history, callers, table, kv>>

CountCtx(c, fs) ==
    /\ ~crashed
    /\ last' = WithContext(c, Call("Count", Nil, 0, RingCount(Here, fs), fs, FALSE, "nil",
                                   <<>>, Here))
    /\ UNCHANGED <<ring, policies, waitgroup, crashed, history, callers, table, kv>>

NextCancel ==
    \E c \in Contexts :
        \/ \E e \in CancelEvents : SaveCtx(c, e)
        \/ \E e \in CancelEvents : ReplaceCtx(c, e)
        \/ \E e \in CancelEvents : DeleteCtx(c, e.id)
        \/ \E fs \in CancelFilterLists : QueryCtx(c, fs)
        \/ \E fs \in CancelFilterLists : CountCtx(c, fs)

SpecCancel == InitCancel /\ [][NextCancel]_vars

----------------------------------------------------------------------------
(* A saver, a deleter and a size checker on the ring buffer: goroutines 1, *)
(* 2 and 3 of TestConcurrency                                               *)

\* The events the saver passes: they share one id, so the deleter finds one
\* whenever the buffer holds any.
SharedIdEvents ==
    {[MkEvent(1, "a", 0, NoD) EXCEPT !.id = 7], [MkEvent(1, "b", 1, NoD) EXCEPT !.id = 7]}

Done(op, found) == [op |-> op, found |-> found]

InitSaveDelete ==
    /\ capacity \in 1..MaxCap
    /\ events = EmptySlots(capacity)
    /\ write = 0
    /\ validateEvent = {}
    /\ sanitizeFilters = "new"
    /\ retries = 0
    /\ wg = 0
    /\ counter = 0
    /\ main = "idle"
    /\ crashed = FALSE
    /\ last = Call("none", Nil, 0, 0, NoFilters, FALSE, "nil", <<>>, {})
    /\ log = <<>>
    /\ savedIdentity = FALSE
    /\ mu = 0
    /\ pc = <<"idle", "idle", "idle">>
    /\ arg = <<Nil, Nil, Nil>>
    /\ loc = <<0, 0, 0>>
    /\ table = {}
    /\ kv = {}

\* store.Save(ctx, event) up to s.mu.Lock()
SaverLock(e) ==
    /\ pc[1] = "idle"
    /\ Len(log) < MaxCalls
    /\ LockAvailable(mu)
    /\ mu' = 1
    /\ pc' = [pc EXCEPT ![1] = "locked"]
    /\ arg' = [arg EXCEPT ![1] = e]
    /\ UNCHANGED <<ring, policies, waitgroup, crashed, last, history, loc, table, kv>>

\* The policy and the write at the cursor, under the mutex.
SaverWrite ==
    /\ pc[1] = "locked"
    /\ LET r == RingSave(Here, validateEvent, arg[1]) IN
          /\ SetRing(r.s)
          /\ crashed' = (r.err = "panic")
    /\ pc' = [pc EXCEPT ![1] = "written"]
    /\ UNCHANGED <<policies, waitgroup, last, history, mu, arg, loc, table, kv>>

\* defer s.mu.Unlock(); the call has completed.
SaverUnlock ==
    /\ pc[1] = "written"
    /\ mu' = 0
    /\ pc' = [pc EXCEPT ![1] = "idle"]
    /\ log' = Append(log, Done("Save", TRUE))
    /\ UNCHANGED <<ring, policies, waitgroup, crashed, last, savedIdentity, arg, loc, table, kv>>

\* store.Delete(ctx, id) up to s.mu.Lock()
DeleterLock ==
    /\ pc[2] = "idle"
    /\ Len(log) < MaxCalls
    /\ LockAvailable(mu)
    /\ mu' = 2
    /\ pc' = [pc EXCEPT ![2] = "locked"]
    /\ UNCHANGED <<ring, policies, waitgroup, crashed, last, history, arg, loc, table, kv>>

\* slices.IndexFunc and s.events[pos] = nil, under the mutex.
DeleterWrite ==
    /\ pc[2] = "locked"
    /\ SetRing(RingDelete(Here, 7))
    /\ loc' = [loc EXCEPT ![2] = IndexOfId(events, 7)]
    /\ pc' = [pc EXCEPT ![2] = "written"]
    /\ UNCHANGED <<policies, waitgroup, crashed, last, history, mu, arg, table, kv>>

DeleterUnlock ==
    /\ pc[2] = "written"
    /\ mu' = 0
    /\ pc' = [pc EXCEPT ![2] = "idle"]
    /\ log' = Append(log, Done("Delete", loc[2] # 0))
    /\ UNCHANGED <<ring, policies, waitgroup, crashed, last, savedIdentity, arg, loc, table, kv>>

\* store.mu.RLock() of the size checker
CheckerLock ==
    /\ pc[3] = "idle"
    /\ LockAvailable(mu)
    /\ mu' = 3
    /\ pc' = [pc EXCEPT ![3] = "locked"]
    /\ UNCHANGED <<ring, policies, waitgroup, crashed, last, history, arg, loc, table, kv>>

\* The count of the non-nil slots, with the calls completed at that moment.
CheckerRead ==
    /\ pc[3] = "locked"
    /\ last' = Call("Size", Nil, 0, Size(events), NoFilters, FALSE, "nil", log, Here)
    /\ pc' = [pc EXCEPT ![3] = "read"]
    /\ UNCHANGED <<ring, policies, waitgroup, crashed, history, mu, arg, loc, table, kv>>

CheckerUnlock ==
    /\ pc[3] = "read"
    /\ mu' = 0
    /\ pc' = [pc EXCEPT ![3] = "idle"]
    /\ UNCHANGED <<ring, policies, waitgroup, crashed, last, history, arg, loc, table, kv>>

NextSaveDelete ==
    \/ \E e \in SharedIdEvents : SaverLock(e)
    \/ SaverWrite
    \/ SaverUnlock
    \/ DeleterLock
    \/ DeleterWrite
    \/ DeleterUnlock
    \/ CheckerLock
    \/ CheckerRead
    \/ CheckerUnlock

SpecSaveDelete == InitSaveDelete /\ [][NextSaveDelete]_vars

----------------------------------------------------------------------------
(* A Query of the ring buffer running beside Saves *)

\* The caller running Query.
Reader == 1

\* Where the scan of Query stands: the next slot to read, the events collected.
Scan(i, coll) == [pos |-> i, collected |-> coll]

\* A store with any content and a valid cursor, built with a filter policy that
\* passes the filters through, and a Query about to be called.
InitQueryRace ==
    /\ \E c \in 1..MaxCap :
          /\ capacity = c
          /\ events \in [1..c -> {Nil} \cup FilterEvents]
          /\ write \in 0..(c - 1)
    /\ validateEvent = {}
    /\ retries = 0
    /\ wg = 0
    /\ counter = 0
    /\ main = "idle"
    /\ sanitizeFilters = "custom"
    /\ crashed = FALSE
    /\ last = NoCall
    /\ log = <<>>
    /\ savedIdentity = FALSE
    /\ mu = 0
    /\ pc = [p \in Procs |-> IF p = Reader THEN "start" ELSE "idle"]
    /\ arg = [p \in Procs |-> Nil]
    /\ loc = [p \in Procs |-> Scan(0, <<>>)]
    /\ table = {}
    /\ kv = {}

\* Query up to its loop: the filter policy; no lock is taken.
QueryStart(fs) ==
    /\ pc[Reader] = "start"
    /\ LET san == Sanitize(sanitizeFilters, fs) IN
       IF san.err # "nil"
       THEN /\ pc' = [pc EXCEPT ![Reader] = "done"]
            /\ last' = Call("Query", Nil, 0, 0, fs, FALSE, san.err, <<>>, Here)
            /\ UNCHANGED loc
       ELSE /\ pc' = [pc EXCEPT ![Reader] = "scan"]
            /\ last' = Call("Query", Nil, 0, 0, san.filters, FALSE, "nil", <<>>, Here)
            /\ loc' = [loc EXCEPT ![Reader] = Scan(1, <<>>)]
    /\ log' = <<events>>
    /\ UNCHANGED <<ring, policies, waitgroup, crashed, savedIdentity, mu, arg, table, kv>>

\* One turn of the loop over s.events: the slot is read and its event
\* appended when some filter matches it.
QueryRead ==
    /\ pc[Reader] = "scan"
    /\ loc[Reader].pos <= Len(events)
    /\ LET e == events[loc[Reader].pos]
           hit == e # Nil /\ \E j \in 1..Len(last.filters) : Matches(last.filters[j], e)
       IN loc' = [loc EXCEPT ![Reader] =
                     Scan(loc[Reader].pos + 1,
                          IF hit THEN Append(loc[Reader].collected, e)
                          ELSE loc[Reader].collected)]
    /\ UNCHANGED <<ring, policies, waitgroup, crashed, last, history, mu, pc, arg, table, kv>>

\* The sort and the return.
QueryReturn ==
    /\ pc[Reader] = "scan"
    /\ loc[Reader].pos > Len(events)
    /\ \E r \in SortOutcomes(loc[Reader].collected) :
          last' = [last EXCEPT !.result = r]
    /\ pc' = [pc EXCEPT ![Reader] = "done"]
    /\ UNCHANGED <<ring, policies, waitgroup, crashed, history, mu, arg, loc, table, kv>>

\* A Save by another caller while the Query is in its loop: the whole Save,
\* under its exclusive lock, which the Query does not contend for.
SaveDuringQuery(e) ==
    /\ pc[Reader] = "scan"
    /\ Len(log) < MaxCalls
    /\ LET r == RingSave(Here, validateEvent, e) IN
       /\ r.err = "nil"
       /\ SetRing(r.s)
       /\ log' = Append(log, r.s.events)
    /\ UNCHANGED <<policies, waitgroup, crashed, last, savedIdentity, callers, table, kv>>

NextQueryRace ==
    \/ \E fs \in {<<FAllLimited>>, <<FKind0>>} : QueryStart(fs)
    \/ QueryRead
    \/ QueryReturn
    \/ \E e \in FilterEvents : SaveDuringQuery(e)

SpecQueryRace == InitQueryRace /\ [][NextQueryRace]_vars

----------------------------------------------------------------------------
(* The sqlite store: the rows of table events *)

\* Trigger d_tags_ai: an inserted event has a row in event_tags when its kind is
\* between 30000 and 39999 and it carries a d tag with a value.
HasTagRow(e) == 30000 <= e.kind /\ e.kind <= 39999 /\ e.d # NoD

\* INSERT OR IGNORE INTO events: a row whose id is present is left alone.
InsertOrIgnore(t, e) == IF \E x \in t : x.id = e.id THEN t ELSE t \cup {e}

\* DELETE FROM events WHERE id = $1
DeleteRow(t, id) == {x \in t : x.id # id}

\* sqlite Store.Save
SqliteSave(t, policy, e) ==
    IF Rejected(policy, e)
    THEN [table |-> t, err |-> "policy"]
    ELSE [table |-> InsertOrIgnore(t, e), err |-> "nil"]

\* The rows the lookup of Store.Replace selects for the event.
SqlLookup(t, e) ==
    CASE IsReplaceableKind(e.kind) ->
            {x \in t : x.kind = e.kind /\ x.pubkey = e.pubkey}
      [] IsAddressableKind(e.kind) ->
            {x \in t : x.kind = e.kind /\ x.pubkey = e.pubkey
                        /\ HasTagRow(x) /\ x.d = GetD(e)}
      [] OTHER -> {}

\* Store.replace that inserts the new row and keeps the old one.
replaceKeepingOld(t, new, id) == InsertOrIgnore(t, new)

\* Store.replace: the insert and the delete of one transaction.
replace(t, new, id) == DeleteRow(InsertOrIgnore(t, new), id)

\* oldCreatedAt >= event.CreatedAt
NotNewer(e, old) == old.created_at >= e.created_at

\* Store.Replace once the lookup has returned row old.
SqliteReplaceOver(t, e, old) ==
    IF NotNewer(e, old)
    THEN [table |-> t, stored |-> FALSE, err |-> "nil"]
    ELSE [table |-> replace(t, e, old.id), stored |-> TRUE, err |-> "nil"]

\* sqlite Store.Replace, called alone: the outcomes, one per row QueryRow can
\* return first.
SqliteReplace(t, policy, e) ==
    IF Rejected(policy, e)
    THEN {[table |-> t, stored |-> FALSE, err |-> "policy"]}
    ELSE IF ~IsValidReplacement(e.kind)
    THEN {[table |-> t, stored |-> FALSE, err |-> "ErrInvalidReplacement"]}
    ELSE IF SqlLookup(t, e) = {}
    THEN LET r == SqliteSave(t, policy, e) IN
         {[table |-> r.table, stored |-> r.err = "nil", err |-> r.err]}
    ELSE {SqliteReplaceOver(t, e, old) : old \in SqlLookup(t, e)}

\* nastro.DefaultFilterValidator
DefaultFilterValidator(fs) ==
    IF \E i \in 1..Len(fs) : ~fs[i].limitZero /\ fs[i].limit < 1
    THEN "ErrUnspecifiedLimit"
    ELSE "nil"

\* The WHERE clause toSql builds: the tag condition is met through event_tags.
SqlWhere(f, e) ==
    /\ f.ids = {} \/ e.id \in f.ids
    /\ f.kinds = {} \/ e.kind \in f.kinds
    /\ f.authors = {} \/ e.pubkey \in f.authors
    /\ f.until = NoTime \/ e.created_at <= f.until
    /\ f.since = NoTime \/ e.created_at >= f.since
    /\ f.dvals = {} \/ (HasTagRow(e) /\ e.d \in f.dvals)

\* ORDER BY created_at DESC, id ASC
RECURSIVE OrderRows(_)
OrderRows(rows) ==
    IF rows = {} THEN <<>>
    ELSE LET x == CHOOSE r \in rows :
                    \A o \in rows : \/ r.created_at > o.created_at
                                    \/ (r.created_at = o.created_at /\ r.id <= o.id)
         IN <<x>> \o OrderRows(rows \ {x})

\* LIMIT n: a negative n is no limit.
LimitRows(seq, n) == IF n < 0 THEN seq ELSE SubSeq(seq, 1, Min(n, Len(seq)))

RECURSIVE SumLimits(_)
SumLimits(fs) == IF fs = <<>> THEN 0 ELSE Head(fs).limit + SumLimits(Tail(fs))

\* DefaultQueryBuilder and the run of its query over the rows.
DefaultQueryBuilder(t, fs) ==
    LET live == RemoveZeros(fs) IN
    IF live = <<>> THEN <<>>
    ELSE LimitRows(OrderRows({e \in t : \E i \in 1..Len(live) : SqlWhere(live[i], e)}),
                   SumLimits(live))

\* sqlite Store.Query of a store built without WithFilterValidator and
\* WithQueryBuilder.
SqliteQuery(t, fs) ==
    IF DefaultFilterValidator(fs) # "nil"
    THEN [events |-> <<>>, err |-> DefaultFilterValidator(fs)]
    ELSE [events |-> DefaultQueryBuilder(t, fs), err |-> "nil"]

\* The query of the test of Replace: the ids, with room for all of them.
FIds(ids) == Filter(ids, {}, {}, {}, NoTime, NoTime, Cardinality(ids), FALSE)

SqlFilterLists ==
    FilterLists \cup {<<FIds({e.id, MkEvent(0, "a", 1, NoD).id})>> : e \in Events}

\* sqlite.New(url) or sqlite.New(url, WithEventValidator(..)): an empty table.
InitSql ==
    /\ capacity = 1
    /\ events = EmptySlots(1)
    /\ write = 0
    /\ validateEvent \in EventPolicies
    /\ retries = 0
    /\ wg = 0
    /\ counter = 0
    /\ main = "idle"
    /\ sanitizeFilters = "default"
    /\ crashed = FALSE
    /\ last = Call("none", Nil, 0, 0, NoFilters, FALSE, "nil", <<>>, {})
    /\ log = <<>>
    /\ savedIdentity = FALSE
    /\ InitIdleCallers
    /\ table = {}
    /\ kv = {}

SqlSave(e) ==
    /\ LET r == SqliteSave(table, validateEvent, e) IN
       /\ table' = r.table
       /\ last' = Call("Save", e, e.id, 0, NoFilters, FALSE, r.err, <<>>, table)
    /\ UNCHANGED <<ring, policies, waitgroup, crashed, history, callers, kv>>

SqlReplace(e) ==
    /\ \E r \in SqliteReplace(table, validateEvent, e) :
          /\ table' = r.table
          /\ last' = Call("Replace", e, e.id, 0, NoFilters, r.stored, r.err, <<>>, table)
    /\ UNCHANGED <<ring, policies, waitgroup, crashed, history, callers, kv>>

SqlDelete(id) ==
    /\ table' = DeleteRow(table, id)
    /\ last' = Call("Delete", Nil, id, 0, NoFilters, FALSE, "nil", <<>>, table)
    /\ UNCHANGED <<ring, policies, waitgroup, crashed, history, callers, kv>>

SqlQuery(fs) ==
    /\ LET r == SqliteQuery(table, fs) IN
       last' = Call("Query", Nil, 0, 0, fs, FALSE, r.err, r.events, table)
    /\ UNCHANGED <<ring, policies, waitgroup, crashed, history, callers, table, kv>>

\* buildCount and the run of its query: COUNT(e.id), or COUNT(DISTINCT e.id)
\* over the join with event_tags, of the rows the WHERE clause selects.
buildCount(t, f) == Cardinality({e \in t : SqlWhere(f, e)})

RECURSIVE SumCounts(_, _)
SumCounts(t, fs) ==
    IF fs = <<>> THEN 0 ELSE buildCount(t, Head(fs)) + SumCounts(t, Tail(fs))

\* DefaultCountBuilder and the run of its query: one count per filter without
\* LimitZero, added together; no query and a total of 0 when none is left.
DefaultCountBuilder(t, fs) == SumCounts(t, RemoveZeros(fs))

\* sqlite Store.Count of a store built without WithCountBuilder: the filters
\* are not validated.
SqliteCount(t, fs) == [count |-> DefaultCountBuilder(t, fs), err |-> "nil"]

SqlCount(fs) ==
    /\ LET r == SqliteCount(table, fs) IN
       last' = Call("sqlite.Count", Nil, 0, r.count, fs, FALSE, r.err, <<>>, table)
    /\ UNCHANGED <<ring, policies, waitgroup, crashed, history, callers, table, kv>>

\* The sqlite store under any sequence of calls by one caller.
NextSql ==
    \/ \E e \in Events : SqlSave(e)
    \/ \E e \in Events : SqlReplace(e)
    \/ \E e \in Events : SqlDelete(e.id)
    \/ \E fs \in SqlFilterLists : SqlQuery(fs)
    \/ \E fs \in SqlFilterLists : SqlCount(fs)

SpecSql == InitSql /\ [][NextSql]_vars

\* Addressable events without a d tag, and two with one.
UntaggedEvents ==
    {MkEvent(30000, p, t, NoD) : p \in {"a", "b"}, t \in 0..MaxTime}
    \cup {MkEvent(30000, "a", t, "x") : t \in 0..1}

InitUntagged == InitSql /\ validateEvent = {}

\* The sqlite store under Replace and Delete of addressable events.
NextUntagged ==
    \/ \E e \in UntaggedEvents : SqlReplace(e)
    \/ \E e \in UntaggedEvents : SqlDelete(e.id)

SpecUntagged == InitUntagged /\ [][NextUntagged]_vars

\* A ring buffer and an sqlite store, each saved to and counted.
InitCounts == InitStore(1..MaxCap, {{}}, {"new"})

NextCounts ==
    \/ \E e \in FilterEvents : Save(e)
    \/ \E fs \in FilterLists : Count(fs)
    \/ \E e \in FilterEvents : SqlSave(e)
    \/ \E fs \in FilterLists : SqlCount(fs)

SpecCounts == InitCounts /\ [][NextCounts]_vars

----------------------------------------------------------------------------
(* Filters naming two tags, compiled for the sqlite store *)

\* An event carrying, beside its d tag, an e tag of value etag (NoD: none).
MkTagged(k, d, etag) ==
    MkEventC(k, "a", 0, d, IF etag = NoD THEN "" ELSE "c") @@ [etag |-> etag]

TaggedEvents == {MkTagged(k, d, t) : k \in {1, 30000}, d \in {NoD, "x"}, t \in {NoD, "y"}}

\* A filter of kinds and of tags d and e, with a limit no result reaches.
TagFilter(kinds, dvals, evals) ==
    Filter({}, kinds, {}, dvals, NoTime, NoTime, Cardinality(TaggedEvents), FALSE)
        @@ [evals |-> evals]

TagFilters ==
    {TagFilter(ks, dv, ev) : ks \in {{}, {30000}}, dv \in {{}, {"x"}}, ev \in {{}, {"y"}}}

\* nostr.Filter.Matches for such a filter: every tag the filter names must be
\* carried by the event with one of the values asked.
TagMatches(f, e) ==
    /\ Matches(f, e)
    /\ f.evals = {} \/ (e.etag # NoD /\ e.etag \in f.evals)

\* The rows of event_tags of an event: trigger d_tags_ai stores the d tag of an
\* addressable event and no other tag.
TagRows(e) == IF HasTagRow(e) THEN {<<"d", e.d>>} ELSE {}

\* The values the filter asks of tag name.
TagValues(f, name) == IF name = "d" THEN f.dvals ELSE f.evals

\* The tag names toSql writes a condition for.
TagNames(f) == {name \in {"d", "e"} : TagValues(f, name) # {}}

\* (t.key = ? AND t.value IN (..)) on row r of event_tags.
TagCondition(f, name, r) == r[1] = name /\ r[2] \in TagValues(f, name)

\* The WHERE clause of buildQuery evaluated on event e joined with its tag row
\* r: the conditions are joined by AND and the tag conditions, last, by an
\* unparenthesised OR, so the other conditions bind to the tag condition that
\* comes first in the iteration of the tag map.
WhereJoined(f, e, r, first) ==
    \/ /\ SqlWhere([f EXCEPT !.dvals = {}], e)
       /\ TagCondition(f, first, r)
    \/ \E name \in TagNames(f) \ {first} : TagCondition(f, name, r)

\* buildQuery: the events selected, first being the tag the map iteration
\* yields first.
SqlSelects(f, e, first) ==
    IF TagNames(f) = {} THEN SqlWhere(f, e)
    ELSE \E r \in TagRows(e) : WhereJoined(f, e, r, first)

\* sqlite Store.Query of one filter naming tags d and e.
SqliteTagQuery(t, f) ==
    IF DefaultFilterValidator(<<f>>) # "nil"
    THEN {[events |-> <<>>, err |-> DefaultFilterValidator(<<f>>)]}
    ELSE {[events |-> LimitRows(OrderRows({e \in t : SqlSelects(f, e, first)}), f.limit),
           err |-> "nil"] : first \in (IF TagNames(f) = {} THEN {"d"} ELSE TagNames(f))}

InitTags ==
    /\ capacity = 1
    /\ events = EmptySlots(1)
    /\ write = 0
    /\ validateEvent = {}
    /\ retries = 0
    /\ wg = 0
    /\ counter = 0
    /\ main = "idle"
    /\ sanitizeFilters = "default"
    /\ crashed = FALSE
    /\ last = Call("none", Nil, 0, 0, NoFilters, FALSE, "nil", <<>>, {})
    /\ log = <<>>
    /\ savedIdentity = FALSE
    /\ InitIdleCallers
    /\ table = {}
    /\ kv = {}

SqlTagQuery(f) ==
    /\ \E r \in SqliteTagQuery(table, f) :
          last' = Call("Query", Nil, 0, 0, <<f>>, FALSE, r.err, r.events, table)
    /\ UNCHANGED <<ring, policies, waitgroup, crashed, history, callers, table, kv>>

\* The sqlite store saved to and queried with filters naming tags.
NextTags ==
    \/ \E e \in TaggedEvents : SqlSave(e)
    \/ \E f \in TagFilters : SqlTagQuery(f)

SpecTags == InitTags /\ [][NextTags]_vars

----------------------------------------------------------------------------
(* The text and the arguments of the queries DefaultQueryBuilder writes: a   *)
(* text is the sequence of its pieces, each placeholder a piece "?"          *)

\* The slice a filter holds for a set of values of the model.
RECURSIVE AsSeq(_)
AsSeq(S) ==
    IF S = {} THEN <<>>
    ELSE LET x == CHOOSE y \in S : TRUE IN <<x>> \o AsSeq(S \ {x})

\* strings.Join(parts, sep)
RECURSIVE Join(_, _)
Join(parts, sep) ==
    IF parts = <<>> THEN <<>>
    ELSE IF Len(parts) = 1 THEN parts[1]
    ELSE parts[1] \o <<sep>> \o Join(Tail(parts), sep)

\* append(all, args...) over the lists of parts
RECURSIVE Concat(_)
Concat(parts) == IF parts = <<>> THEN <<>> ELSE Head(parts) \o Concat(Tail(parts))

\* An equalityClause that writes one placeholder whatever the values.
equalityClauseSingle(n) == <<"=", "?">>

\* equalityClause(vals), n = len(vals) > 0
equalityClause(n) ==
    IF n = 1 THEN <<"=", "?">>
    ELSE <<"IN (">> \o [i \in 1..n |-> "?"] \o <<")">>

\* The tag names of f in the order the iteration of the map yields them, first
\* coming first when f names it.
TagOrder(f, first) ==
    IF first \in TagNames(f) THEN <<first>> \o AsSeq(TagNames(f) \ {first})
    ELSE AsSeq(TagNames(f))

\* One condition of toSql on column col with the values vals.
Condition(col, vals) == <<col>> \o equalityClause(Len(vals))

\* toSql(filter), the tag map iterated in the order names.
toSql(f, names) ==
    LET ids == AsSeq(f.ids)
        kinds == AsSeq(f.kinds)
        authors == AsSeq(f.authors)
        tagConds == [i \in 1..Len(names) |->
                        <<"(t.key =", "?", "AND t.value">>
                            \o equalityClause(Cardinality(TagValues(f, names[i])))
                            \o <<")">>]
        tagArgs == [i \in 1..Len(names) |-> <<names[i]>> \o AsSeq(TagValues(f, names[i]))]
    IN [Conditions |->
            (IF ids # <<>> THEN <<Condition("e.id", ids)>> ELSE <<>>)
            \o (IF kinds # <<>> THEN <<Condition("e.kind", kinds)>> ELSE <<>>)
            \o (IF authors # <<>> THEN <<Condition("e.pubkey", authors)>> ELSE <<>>)
            \o (IF f.until # NoTime THEN <<<<"e.created_at <=", "?">>>> ELSE <<>>)
            \o (IF f.since # NoTime THEN <<<<"e.created_at >=", "?">>>> ELSE <<>>)
            \o (IF names # <<>> THEN <<Join(tagConds, "OR")>> ELSE <<>>),
        Args |->
            ids \o kinds \o authors
            \o (IF f.until # NoTime THEN <<f.until>> ELSE <<>>)
            \o (IF f.since # NoTime THEN <<f.since>> ELSE <<>>)
            \o Concat(tagArgs),
        JoinTags |-> names # <<>>]

\* buildQuery(filter)
buildQuery(f, names) ==
    LET sql == toSql(f, names) IN
    IF sql.JoinTags
    THEN [SQL |-> <<"SELECT e.* FROM events AS e JOIN event_tags AS t ON t.event_id = e.id WHERE">>
                    \o Join(sql.Conditions, "AND") \o <<"GROUP BY e.id">>,
          Args |-> sql.Args]
    ELSE [SQL |-> <<"SELECT e.* FROM events AS e">>
                    \o (IF sql.Conditions # <<>>
                        THEN <<"WHERE">> \o Join(sql.Conditions, "AND") ELSE <<>>),
          Args |-> sql.Args]

\* The queries DefaultQueryBuilder returns, firsts[i] being the tag name the
\* map of the i-th remaining filter yields first.
QueryPlans(fs, firsts) ==
    LET live == RemoveZeros(fs)
        subs == [i \in 1..Len(live) |-> buildQuery(live[i], TagOrder(live[i], firsts[i]))]
    IN IF live = <<>> THEN <<>>
       ELSE IF Len(live) = 1
       THEN <<[SQL |-> subs[1].SQL \o <<"ORDER BY e.created_at DESC, e.id ASC LIMIT", "?">>,
               Args |-> Append(subs[1].Args, live[1].limit)]>>
       ELSE <<[SQL |-> <<"SELECT * FROM (">>
                         \o Join([i \in 1..Len(subs) |-> subs[i].SQL], "UNION ALL")
                         \o <<") GROUP BY id ORDER BY created_at DESC, id ASC LIMIT", "?">>,
               Args |-> Append(Concat([i \in 1..Len(subs) |-> subs[i].Args]),
                               SumLimits(live))]>>

\* Filters of every kind of condition, one of them naming two tags, one with
\* LimitZero set.
BuiltFilters ==
    {Filter({1, 2}, {0}, {}, {}, NoTime, NoTime, 1, FALSE) @@ [evals |-> {}],
     Filter({}, {}, {"a"}, {}, 0, 1, 2, FALSE) @@ [evals |-> {}],
     Filter({}, {0, 1}, {}, {"x"}, NoTime, NoTime, 2, FALSE) @@ [evals |-> {"y", "z"}],
     Filter({}, {}, {"a", "b"}, {}, NoTime, NoTime, 3, TRUE) @@ [evals |-> {}],
     Filter({}, {}, {}, {}, NoTime, NoTime, 1, FALSE) @@ [evals |-> {}]}

RECURSIVE BuiltInputs(_)
BuiltInputs(n) ==
    IF n = 0 THEN {<<>>}
    ELSE BuiltInputs(n - 1)
         \cup {Append(fs, f) : fs \in {g \in BuiltInputs(n - 1) : Len(g) = n - 1},
                               f \in BuiltFilters}

\* The filters of the call to come are held in last.filters.
InitBuilder ==
    /\ capacity = 1
    /\ events = EmptySlots(1)
    /\ write = 0
    /\ validateEvent = {}
    /\ sanitizeFilters = "default"
    /\ retries = 0
    /\ wg = 0
    /\ counter = 0
    /\ main = "idle"
    /\ crashed = FALSE
    /\ \E fs \in BuiltInputs(MaxFilters) :
          last = Call("input", Nil, 0, 0, fs, FALSE, "nil", <<>>, {})
    /\ log = <<>>
    /\ savedIdentity = FALSE
    /\ InitIdleCallers
    /\ table = {}
    /\ kv = {}

BuildQueries ==
    /\ last.op = "input"
    /\ \E firsts \in [1..Len(last.filters) -> {"d", "e"}] :
          last' = Call("DefaultQueryBuilder", Nil, 0, 0, last.filters, FALSE, "nil",
                       QueryPlans(last.filters, firsts), {})
    /\ UNCHANGED <<ring, policies, waitgroup, crashed, history, callers, table, kv>>

NextBuilder == BuildQueries

SpecBuilder == InitBuilder /\ [][NextBuilder]_vars

----------------------------------------------------------------------------
(* nastro.DefaultFilterPolicy as a function of its arguments *)

\* Filters that differ in Limit, LimitZero and one kind.
PolicyFilters ==
    {Filter({}, ks, {}, {}, NoTime, NoTime, l, z) :
        ks \in {{}, {0}}, l \in {0 - 1, 0, 1, 2}, z \in BOOLEAN}

RECURSIVE PolicyInputs(_)
PolicyInputs(n) ==
    IF n = 0 THEN {<<>>}
    ELSE PolicyInputs(n - 1)
         \cup {Append(fs, f) : fs \in {g \in PolicyInputs(n - 1) : Len(g) = n - 1},
                               f \in PolicyFilters}

\* The filters of the call to come are held in last.filters.
InitPolicy ==
    /\ capacity = 1
    /\ events = EmptySlots(1)
    /\ write = 0
    /\ validateEvent = {}
    /\ sanitizeFilters = "default"
    /\ retries = 0
    /\ wg = 0
    /\ counter = 0
    /\ main = "idle"
    /\ crashed = FALSE
    /\ \E fs \in PolicyInputs(MaxFilters) :
          last = Call("input", Nil, 0, 0, fs, FALSE, "nil", <<>>, {})
    /\ log = <<>>
    /\ savedIdentity = FALSE
    /\ InitIdleCallers
    /\ table = {}
    /\ kv = {}

ApplyPolicy ==
    /\ last.op = "input"
    /\ LET r == DefaultFilterPolicy(last.filters)
       IN last' = Call("DefaultFilterPolicy", Nil, 0, 0, last.filters, FALSE,
                       r.err, r.filters, {})
    /\ UNCHANGED <<ring, policies, waitgroup, crashed, history, callers, table, kv>>

NextPolicy == ApplyPolicy

SpecPolicy == InitPolicy /\ [][NextPolicy]_vars

----------------------------------------------------------------------------
(* sqlite QueryLimits.Validate as a function of its arguments *)

\* QueryLimits with small maxima.
QueryLimits(maxLimit) ==
    [MaxIDs |-> 2, MaxKinds |-> 3, MaxAuthors |-> 2, MaxTags |-> 2, MaxLimit |-> maxLimit]

\* IsEmptyFilter
IsEmptyFilter(f) ==
    /\ f.ids = {} /\ f.kinds = {} /\ f.authors = {} /\ f.dvals = {}
    /\ f.since = NoTime /\ f.until = NoTime

\* The loop of Validate from filter i on: an empty filter ends it with the
\* filters before it already changed; tot holds the running totals.
RECURSIVE ValidateLoop(_, _, _, _)
ValidateLoop(q, fs, i, tot) ==
    IF i > Len(fs)
    THEN [filters |-> fs,
          err |-> IF tot.IDs > q.MaxIDs THEN "ErrTooManyFilterIDs"
                  ELSE IF tot.kinds > q.MaxKinds THEN "ErrTooManyFilterKinds"
                  ELSE IF tot.authors > q.MaxAuthors THEN "ErrTooManyFilterAuthors"
                  ELSE IF tot.tags > q.MaxTags THEN "ErrTooManyFilterTags"
                  ELSE "nil"]
    ELSE IF IsEmptyFilter(fs[i]) THEN [filters |-> fs, err |-> "ErrEmptyFilter"]
    ELSE LET share == q.MaxLimit \div Len(fs)
             lim == IF fs[i].limit < 1 \/ fs[i].limit > share THEN share ELSE fs[i].limit
         IN ValidateLoop(q, [fs EXCEPT ![i].limit = lim], i + 1,
                         [IDs |-> tot.IDs + Cardinality(fs[i].ids),
                          kinds |-> tot.kinds + Cardinality(fs[i].kinds),
                          authors |-> tot.authors + Cardinality(fs[i].authors),
                          tags |-> tot.tags + Cardinality(fs[i].dvals)])

\* QueryLimits.Validate: the error and the filters as it leaves them.
Validate(q, fs) ==
    IF Len(fs) = 0 THEN [filters |-> fs, err |-> "ErrEmptyFilters"]
    ELSE ValidateLoop(q, fs, 1, [IDs |-> 0, kinds |-> 0, authors |-> 0, tags |-> 0])

ValidatedFilters ==
    {FAll} \cup {Filter({}, ks, {}, {}, NoTime, NoTime, l, FALSE) :
                    ks \in {{0}, {0, 1}}, l \in {0 - 1, 0, 1, 2, 3}}

RECURSIVE ValidateInputs(_)
ValidateInputs(n) ==
    IF n = 0 THEN {<<>>}
    ELSE ValidateInputs(n - 1)
         \cup {Append(fs, f) : fs \in {g \in ValidateInputs(n - 1) : Len(g) = n - 1},
                               f \in ValidatedFilters}

\* The filters of the call to come are held in last.filters, MaxLimit in last.n.
InitLimits ==
    /\ capacity = 1
    /\ events = EmptySlots(1)
    /\ write = 0
    /\ validateEvent = {}
    /\ sanitizeFilters = "default"
    /\ retries = 0
    /\ wg = 0
    /\ counter = 0
    /\ main = "idle"
    /\ crashed = FALSE
    /\ \E fs \in ValidateInputs(MaxFilters), m \in 1..MaxMaxLimit :
          last = Call("input", Nil, 0, m, fs, FALSE, "nil", <<>>, {})
    /\ log = <<>>
    /\ savedIdentity = FALSE
    /\ InitIdleCallers
    /\ table = {}
    /\ kv = {}

ApplyValidate ==
    /\ last.op = "input"
    /\ LET r == Validate(QueryLimits(last.n), last.filters)
       IN last' = Call("Validate", Nil, 0, last.n, last.filters, FALSE,
                       r.err, r.filters, {})
    /\ UNCHANGED <<ring, policies, waitgroup, crashed, history, callers, table, kv>>

NextLimits == ApplyValidate

SpecLimits == InitLimits /\ [][NextLimits]_vars

----------------------------------------------------------------------------
(* The sqlite store over an engine that can fail *)

\* What an attempt of a write, or a step of a query, can return.
Locked == "database is locked"
Structural == "disk I/O error"

\* A test that takes every error for lock contention.
IsAnyError(err) == err # "nil"

\* IsDatabaseLocked
IsDatabaseLocked(err) == err = Locked

\* A loop of one attempt more than s.retries + 1.
OneMoreThanBound(i, n) == i <= n

\* for i := range s.retries + 1: another attempt follows attempt i (and the
\* sleep before it) when i < s.retries.
MoreAttempts(i, n) == i < n

Try(i) == [i |-> i]

\* The events and the filters of the calls of SpecSqlFaults.
FaultEvents == {MkEvent(1, "a", 0, NoD), MkEvent(1, "a", 1, NoD)}

FaultFilterLists == {<<>>, <<FAllLimited>>, <<FKind0>>}

\* sqlite.New(url, WithRetries(n)), 0 <= n.
InitSqlFaults ==
    /\ capacity = 1
    /\ events = EmptySlots(1)
    /\ write = 0
    /\ validateEvent = {}
    /\ sanitizeFilters = "default"
    /\ retries \in 0..MaxRetries
    /\ wg = 0
    /\ counter = 0
    /\ main = "idle"
    /\ crashed = FALSE
    /\ last = Call("none", Nil, 0, 0, NoFilters, FALSE, "nil", <<>>, {})
    /\ log = <<>>
    /\ savedIdentity = FALSE
    /\ InitIdleCallers
    /\ table = {}
    /\ kv = {}

\* Save up to withRetries: the validator has accepted the event.
SaveBegin(e) ==
    /\ pc[1] = "idle"
    /\ ~Rejected(validateEvent, e)
    /\ pc' = [pc EXCEPT ![1] = "attempt"]
    /\ arg' = [arg EXCEPT ![1] = e]
    /\ loc' = [loc EXCEPT ![1] = Try(0)]
    /\ log' = <<>>
    /\ UNCHANGED <<ring, policies, waitgroup, crashed, last, savedIdentity, mu, table, kv>>

\* One turn of the loop of withRetries: the operation runs and returns out;
\* anything but lock contention is returned, lock contention on the last turn
\* ends the loop and the terminal error is returned.
SaveAttempt(out) ==
    /\ pc[1] = "attempt"
    /\ table' = IF out = "nil" THEN InsertOrIgnore(table, arg[1]) ELSE table
    /\ log' = Append(log, out)
    /\ IF ~IsDatabaseLocked(out)
       THEN /\ pc' = [pc EXCEPT ![1] = "idle"]
            /\ last' = Call("Save", arg[1], arg[1].id, 0, NoFilters, FALSE, out, <<>>, table)
       ELSE IF MoreAttempts(loc[1].i, retries)
       THEN /\ pc' = [pc EXCEPT ![1] = "sleep"]
            /\ UNCHANGED last
       ELSE /\ pc' = [pc EXCEPT ![1] = "idle"]
            /\ last' = Call("Save", arg[1], arg[1].id, retries + 1, NoFilters, FALSE,
                            "database is locked: performed attempts", <<>>, table)
    /\ UNCHANGED <<ring, policies, waitgroup, crashed, savedIdentity, mu, arg, loc, kv>>

\* time.Sleep(20*time.Millisecond + jitter) and the next turn.
SaveSleep ==
    /\ pc[1] = "sleep"
    /\ log' = Append(log, "sleep")
    /\ loc' = [loc EXCEPT ![1] = Try(loc[1].i + 1)]
    /\ pc' = [pc EXCEPT ![1] = "attempt"]
    /\ UNCHANGED <<ring, policies, waitgroup, crashed, last, savedIdentity, mu, arg, table, kv>>

\* QueryWithBuilder over an engine that can fail: the query fails, row k fails
\* to scan, or the iteration ends on an error, after the rows before it were
\* appended.
QueryWithBuilder(t, fs) ==
    IF DefaultFilterValidator(fs) # "nil"
    THEN {[events |-> <<>>, err |-> DefaultFilterValidator(fs)]}
    ELSE LET rows == DefaultQueryBuilder(t, fs) IN
         {[events |-> rows, err |-> "nil"]}
         \cup (IF RemoveZeros(fs) = <<>> THEN {}
               ELSE {[events |-> <<>>, err |-> Structural],
                     [events |-> rows, err |-> "ErrInternalQuery"]}
                    \cup {[events |-> SubSeq(rows, 1, k - 1), err |-> "ErrInternalQuery"] :
                             k \in 1..Len(rows)})

SqlQueryFaulty(fs) ==
    /\ pc[1] = "idle"
    /\ \E r \in QueryWithBuilder(table, fs) :
          last' = Call("Query", Nil, 0, 0, fs, FALSE, r.err, r.events, table)
    /\ log' = <<>>
    /\ UNCHANGED <<ring, policies, waitgroup, crashed, savedIdentity, callers, table, kv>>

NextSqlFaults ==
    \/ \E e \in FaultEvents : SaveBegin(e)
    \/ \E out \in {"nil", Locked, Structural} : SaveAttempt(out)
    \/ SaveSleep
    \/ \E fs \in FaultFilterLists : SqlQueryFaulty(fs)

SpecSqlFaults == InitSqlFaults /\ [][NextSqlFaults]_vars

----------------------------------------------------------------------------
(* Concurrent callers of the sqlite store's Replace *)

\* A table holding zero or one row of the callers' category, and one Replace
\* call per caller about to start.
InitSqlConc ==
    /\ capacity = 1
    /\ events = EmptySlots(1)
    /\ write = 0
    /\ validateEvent = {}
    /\ retries = 0
    /\ wg = 0
    /\ counter = 0
    /\ main = "idle"
    /\ sanitizeFilters = "default"
    /\ crashed = FALSE
    /\ table \in SUBSET ({OtherEvent} \cup ConcEvents)
    /\ Cardinality(table \cap ConcEvents) <= 1
    /\ last = Call("none", Nil, 0, 0, NoFilters, FALSE, "nil", <<>>, table)
    /\ log = <<>>
    /\ savedIdentity = FALSE
    /\ mu = 0
    /\ pc = [p \in Procs |-> "start"]
    /\ arg \in [Procs -> ConcEvents]
    /\ loc = [p \in Procs |-> Local(0, FALSE, "nil")]
    /\ kv = {}

\* Replace up to its decision: the validator, the kind, the lookup of the
\* incumbent and the comparison of the timestamps.
SqlReplaceLookup(p) ==
    /\ pc[p] = "start"
    /\ IF Rejected(validateEvent, arg[p])
       THEN /\ pc' = [pc EXCEPT ![p] = "done"]
            /\ loc' = [loc EXCEPT ![p] = Local(0, FALSE, "policy")]
       ELSE IF ~IsValidReplacement(arg[p].kind)
       THEN /\ pc' = [pc EXCEPT ![p] = "done"]
            /\ loc' = [loc EXCEPT ![p] = Local(0, FALSE, "ErrInvalidReplacement")]
       ELSE IF SqlLookup(table, arg[p]) = {}
       THEN /\ pc' = [pc EXCEPT ![p] = "save"]
            /\ UNCHANGED loc
       ELSE \E old \in SqlLookup(table, arg[p]) :
               IF NotNewer(arg[p], old)
               THEN /\ pc' = [pc EXCEPT ![p] = "done"]
                    /\ loc' = [loc EXCEPT ![p] = Local(old.id, FALSE, "nil")]
               ELSE /\ pc' = [pc EXCEPT ![p] = "replace"]
                    /\ loc' = [loc EXCEPT ![p] = Local(old.id, FALSE, "nil")]
    /\ UNCHANGED <<ring, policies, waitgroup, crashed, last, history, mu, arg, table, kv>>

\* s.Save(ctx, event) after a lookup that returned no row.
SqlReplaceSave(p) ==
    /\ pc[p] = "save"
    /\ table' = SqliteSave(table, validateEvent, arg[p]).table
    /\ pc' = [pc EXCEPT ![p] = "done"]
    /\ loc' = [loc EXCEPT ![p] = Local(0, TRUE, "nil")]
    /\ UNCHANGED <<ring, policies, waitgroup, crashed, last, history, mu, arg, kv>>

\* s.replace(ctx, event, oldID): the transaction, in one engine step.
SqlReplaceTx(p) ==
    /\ pc[p] = "replace"
    /\ table' = replace(table, arg[p], loc[p].pos)
    /\ pc' = [pc EXCEPT ![p] = "done"]
    /\ loc' = [loc EXCEPT ![p] = Local(loc[p].pos, TRUE, "nil")]
    /\ UNCHANGED <<ring, policies, waitgroup, crashed, last, history, mu, arg, kv>>

NextSqlConc ==
    \E p \in Procs :
        \/ SqlReplaceLookup(p)
        \/ SqlReplaceSave(p)
        \/ SqlReplaceTx(p)

SpecSqlConc == InitSqlConc /\ [][NextSqlConc]_vars

----------------------------------------------------------------------------
(* The badger store: the events the engine holds *)

\* uint16(ev.Kind)
Uint16(k) == k % 65536

\* kind.IsReplaceable(k) || kind.IsParameterizedReplaceable(k) of the engine.
EngineReplaceable(k) == IsReplaceableKind(k) \/ IsAddressableKind(k)

\* The stored events the engine supersedes by e or blocks e with.
EngineRivals(k, e) ==
    {x \in k : EngineReplaceable(Uint16(e.kind)) /\ isReplacementCandidate(e, x)}

\* s.D.SaveEvent as Store.Save and Store.Replace use it: the event is blocked by
\* a newer stored event of its category or by its own stored copy, saved over
\* the older ones otherwise (either of the two against an event of the same
\* created_at), and any call can fail in the engine.
SaveEvent(k, e) ==
    LET rivals == EngineRivals(k, e)
        blocked == [kv |-> k, err |-> "blocked:"]
        saved == [kv |-> (k \ rivals) \cup {e}, err |-> "nil"]
        failed == [kv |-> k, err |-> "engine"]
    IN {failed}
       \cup (IF e \in k \/ \E x \in rivals : x.created_at >= e.created_at
             THEN {blocked} ELSE {})
       \cup (IF e \notin k /\ \A x \in rivals : x.created_at <= e.created_at
             THEN {saved} ELSE {})

\* badger Store.Save
BadgerSave(k, policy, e) ==
    IF Rejected(policy, e)
    THEN {[kv |-> k, err |-> "policy"]}
    ELSE SaveEvent(k, e)

\* badger Store.Replace: the named result replaced is assigned false or left at
\* its zero value on every path.
BadgerReplace(k, e) ==
    IF ~EngineReplaceable(Uint16(e.kind))
    THEN {[kv |-> k, stored |-> FALSE, err |-> "ErrInvalidReplacement"]}
    ELSE {[kv |-> r.kv, stored |-> FALSE,
           err |-> IF r.err = "blocked:" THEN "nil" ELSE r.err] : r \in SaveEvent(k, e)}

\* badger Store.Delete
BadgerDelete(k, id) == {x \in k : x.id # id}

\* badger.New(ctx, path) or badger.New(ctx, path, WithEventPolicy(..)).
InitBadger ==
    /\ capacity = 1
    /\ events = EmptySlots(1)
    /\ write = 0
    /\ validateEvent \in EventPolicies
    /\ retries = 0
    /\ wg = 0
    /\ counter = 0
    /\ main = "idle"
    /\ sanitizeFilters = "new"
    /\ crashed = FALSE
    /\ last = Call("none", Nil, 0, 0, NoFilters, FALSE, "nil", <<>>, {})
    /\ log = <<>>
    /\ savedIdentity = FALSE
    /\ InitIdleCallers
    /\ table = {}
    /\ kv = {}

KvSave(e) ==
    /\ \E r \in BadgerSave(kv, validateEvent, e) :
          /\ kv' = r.kv
          /\ last' = Call("Save", e, e.id, 0, NoFilters, FALSE, r.err, <<>>, kv)
    /\ UNCHANGED <<ring, policies, waitgroup, crashed, history, callers, table>>

KvReplace(e) ==
    /\ \E r \in BadgerReplace(kv, e) :
          /\ kv' = r.kv
          /\ last' = Call("Replace", e, e.id, 0, NoFilters, r.stored, r.err, <<>>, kv)
    /\ UNCHANGED <<ring, policies, waitgroup, crashed, history, callers, table>>

KvDelete(id) ==
    /\ kv' = BadgerDelete(kv, id)
    /\ last' = Call("Delete", Nil, id, 0, NoFilters, FALSE, "nil", <<>>, kv)
    /\ UNCHANGED <<ring, policies, waitgroup, crashed, history, callers, table>>

\* The badger store under any sequence of Save, Replace and Delete by one caller.
NextBadger ==
    \/ \E e \in Events : KvSave(e)
    \/ \E e \in Events : KvReplace(e)
    \/ \E e \in Events : KvDelete(e.id)

SpecBadger == InitBadger /\ [][NextBadger]_vars

----------------------------------------------------------------------------
(* The badger store's conversion of events to the engine's form and back *)

\* GoNostrToOrly on an event of well-formed hex id and pubkey: the kind is
\* narrowed to 16 bits, the other fields are carried over.
GoNostrToOrly(e) ==
    [ID |-> e.id, Pubkey |-> e.pubkey, CreatedAt |-> e.created_at,
     Kind |-> Uint16(e.kind), Tags |-> e.d, Content |-> e.content]

\* OrlyToGoNostr
OrlyToGoNostr(o) ==
    [id |-> o.ID, pubkey |-> o.Pubkey, created_at |-> o.CreatedAt,
     kind |-> o.Kind, d |-> o.Tags, content |-> o.Content]

\* Events of kinds on both sides of 2^16.
ConvertedEvents ==
    {MkEventC(k, p, t, d, c) :
        k \in {0, 1, 30000, 65535, 65536, 65537, 95536}, p \in {"a", "b"},
        t \in 0..MaxTime, d \in {NoD, "x"}, c \in {"", "c"}}

\* The event of the call to come is held in last.ev.
InitConvert ==
    /\ capacity = 1
    /\ events = EmptySlots(1)
    /\ write = 0
    /\ validateEvent = {}
    /\ sanitizeFilters = "new"
    /\ retries = 0
    /\ wg = 0
    /\ counter = 0
    /\ main = "idle"
    /\ crashed = FALSE
    /\ \E e \in ConvertedEvents :
          last = Call("input", e, e.id, 0, NoFilters, FALSE, "nil", <<>>, {})
    /\ log = <<>>
    /\ savedIdentity = FALSE
    /\ InitIdleCallers
    /\ table = {}
    /\ kv = {}

\* Save converts the event for the engine; Query converts what the engine
\* holds back.
SaveThenQuery ==
    /\ last.op = "input"
    /\ last' = Call("Save;Query", last.ev, last.id, 0, NoFilters, FALSE, "nil",
                    <<OrlyToGoNostr(GoNostrToOrly(last.ev))>>, {})
    /\ UNCHANGED <<ring, policies, waitgroup, crashed, history, callers, table, kv>>

NextConvert == SaveThenQuery

SpecConvert == InitConvert /\ [][NextConvert]_vars

----------------------------------------------------------------------------
(* The badger store's Count: one goroutine per filter *)

\* A filter whose author is not a hex string.
FBadAuthor == Filter({}, {}, {"not hex"}, {}, NoTime, NoTime, 0, FALSE)

\* GoNostrFilterToOrly: xhex.Decode fails on an author that is not hex.
GoNostrFilterToOrly(f) == IF "not hex" \in f.authors THEN "hex" ELSE "nil"

\* CountEvents of the engine, when it succeeds.
CountEvents(s, f) == Cardinality({e \in s : Matches(f, e)})

CountedEvents == {MkEvent(0, "a", 0, NoD), MkEvent(1, "a", 1, NoD)}

CountFilters == {FAll, FKind0, FBadAuthor}

RECURSIVE FilterSeqs(_)
FilterSeqs(n) ==
    IF n = 0 THEN {<<>>}
    ELSE FilterSeqs(n - 1)
         \cup {Append(fs, f) : fs \in {g \in FilterSeqs(n - 1) : Len(g) = n - 1},
                               f \in CountFilters}

\* No call of Count is under way and no goroutine of an earlier call is left.
Quiescent ==
    /\ main \in {"idle", "returned"}
    /\ \A p \in 1..NProcs : pc[p] \in {"idle", "finished"}

\* The tasks of the call: goroutine p is given filters[p].
Tasks == {p \in 1..NProcs : arg[p] # Nil}

SaveCounted(e) == Quiescent /\ KvSave(e)

\* var counter; var wg; for _, f := range filters { go func(filter) {...}(f) }
CountBegin(fs) ==
    /\ Quiescent
    /\ wg' = 0
    /\ counter' = 0
    /\ main' = "wait"
    /\ pc' = [p \in 1..NProcs |-> IF p <= Len(fs) THEN "spawned" ELSE "idle"]
    /\ arg' = [p \in 1..NProcs |-> IF p <= Len(fs) THEN fs[p] ELSE Nil]
    /\ loc' = [p \in 1..NProcs |-> 0]
    /\ UNCHANGED <<ring, policies, crashed, last, history, mu, table, kv>>

\* wg.Add(1), the first statement of the goroutine.
TaskAdd(p) ==
    /\ pc[p] = "spawned"
    /\ wg' = wg + 1
    /\ pc' = [pc EXCEPT ![p] = "added"]
    /\ UNCHANGED <<ring, policies, crashed, last, history, mu, arg, loc, table, kv,
                   counter, main>>

\* The conversion and CountEvents, whose error out the goroutine drops, and
\* counter.Add.
TaskCount(p, out) ==
    /\ pc[p] = "added"
    /\ LET err == IF GoNostrFilterToOrly(arg[p]) # "nil"
                  THEN GoNostrFilterToOrly(arg[p]) ELSE out
       IN /\ loc' = [loc EXCEPT ![p] = err]
          /\ counter' = IF err = "nil" THEN counter + CountEvents(kv, arg[p]) ELSE counter
    /\ pc' = [pc EXCEPT ![p] = "counted"]
    /\ UNCHANGED <<ring, policies, crashed, last, history, mu, arg, table, kv, wg, main>>

\* defer wg.Done()
TaskDone(p) ==
    /\ pc[p] = "counted"
    /\ wg' = wg - 1
    /\ pc' = [pc EXCEPT ![p] = "finished"]
    /\ UNCHANGED <<ring, policies, crashed, last, history, mu, arg, loc, table, kv,
                   counter, main>>

\* wg.Wait() returns when the counter of the wait group is zero.
CountWait ==
    /\ main = "wait"
    /\ wg = 0
    /\ main' = "load"
    /\ UNCHANGED <<ring, policies, crashed, last, history, callers, table, kv, wg, counter>>

\* count = counter.Load(); return: err is the named result, never assigned.
\* last.result is the position of every goroutine at that moment.
CountReturn ==
    /\ main = "load"
    /\ main' = "returned"
    /\ last' = Call("Count", Nil, 0, counter, SubSeq(arg, 1, Cardinality(Tasks)),
                    FALSE, "nil", pc, kv)
    /\ UNCHANGED <<ring, policies, crashed, history, callers, table, kv, wg, counter>>

NextBadgerCount ==
    \/ \E e \in CountedEvents : SaveCounted(e)
    \/ \E fs \in FilterSeqs(NProcs) : CountBegin(fs)
    \/ \E p \in 1..NProcs : TaskAdd(p)
    \/ \E p \in 1..NProcs, out \in {"nil", "engine"} : TaskCount(p, out)
    \/ \E p \in 1..NProcs : TaskDone(p)
    \/ CountWait
    \/ CountReturn

InitBadgerCount == InitBadger /\ validateEvent = {}

SpecBadgerCount == InitBadgerCount /\ [][NextBadgerCount]_vars

----------------------------------------------------------------------------
(* Claims *)

KindIsReplaceableOrAddressable(k) ==
    k = 0 \/ k = 3 \/ (10000 <= k /\ k < 20000) \/ (30000 <= k /\ k < 40000)

OnePerIdentity ==
    \A i, j \in Occupied(events) :
        (i # j /\ KindIsReplaceableOrAddressable(events[i].kind))
            => Category(events[i]) # Category(events[j])

\* C7 as stated: in every state reachable by Save, Replace, Delete and Resize at
\* most one stored event exists per replaceable or addressable identity.
C7_OnePerIdentity_AnySave == OnePerIdentity

\* C7 amended: the same in every state reachable by Replace, Delete, Resize and
\* Saves of regular events.
C7_OnePerIdentity_ReplaceOnly == ~savedIdentity => OnePerIdentity

\* C7 witness: a full buffer in which a Replace has just superseded the stored
\* event of its category while an event of another category is stored too.
C7_Witness ==
    /\ ~savedIdentity
    /\ last.op = "Replace"
    /\ last.stored
    /\ FirstCandidate(last.pre.events, last.ev) # 0
    /\ Size(events) = capacity
    /\ capacity > 1

\* C8: Save is idempotent on the event id: no two occupied slots hold events
\* with the same id, and a second Save of a stored id does not grow Size.
C8_SaveIdempotent ==
    /\ \A i, j \in Occupied(events) : i # j => events[i].id # events[j].id
    /\ (last.op = "Save" /\ IndexOfId(last.pre.events, last.id) # 0)
          => Size(events) <= Size(last.pre.events)

\* C10: on a store built by New without a filter-policy option, a Query with one
\* filter that matches every event returns all the stored events.
C10_QueryAllReturnsAll ==
    (/\ last.op = "Query"
     /\ sanitizeFilters = "new"
     /\ last.filters \in {<<FAll>>, <<FAllLimited>>})
        => /\ last.err = "nil"
           /\ Len(last.result) = Size(events)
           /\ {last.result[i] : i \in 1..Len(last.result)} = StoredSet(events)

\* C1: sequential Replace calls of one identity category on an empty store:
\* after every call exactly one event of the category is stored and its
\* created_at is the greatest passed so far; a call whose created_at equals the
\* incumbent's returns stored=false and leaves the incumbent stored.
C1_ReplaceMonotone ==
    log # <<>> =>
        LET c == Category(log[1])
            before == InCategory(last.pre.events, c)
            now == InCategory(events, c)
        IN /\ Cardinality(now) = 1
           /\ \A i \in now :
                events[i].created_at = SetMax({log[k].created_at : k \in 1..Len(log)})
           /\ (\E i \in before : last.pre.events[i].created_at = last.ev.created_at)
                => (last.stored = FALSE /\ events = last.pre.events)

\* C1 witness: a third or later call passes an event with the incumbent's
\* created_at and another id.
C1_Witness ==
    /\ Len(log) >= 3
    /\ last.op = "Replace"
    /\ \E i \in Occupied(last.pre.events) :
          /\ Category(last.pre.events[i]) = Category(last.ev)
          /\ last.pre.events[i].created_at = last.ev.created_at
          /\ last.pre.events[i].id # last.ev.id
          /\ last.ev.created_at > 0

\* C9: after N >= C Saves of distinct events into an empty buffer of capacity C,
\* Size() = C and the stored events are the C most recently saved; the
\* (C+1)-th Save lands in the slot that held the first saved event.
C9_RingBound ==
    LET n == Len(log) IN
    /\ n >= capacity =>
          /\ Size(events) = capacity
          /\ StoredSet(events) = {log[k] : k \in (n - capacity + 1)..n}
    /\ n = capacity => events[1] = log[1]
    /\ n = capacity + 1 => events[1] = log[n]

\* C9 witness: the Save after the buffer of capacity 3 filled up.
C9_Witness ==
    /\ capacity = 3
    /\ Len(log) = 4
    /\ last.op = "Save"
    /\ last.pre.events[1] = log[1]
    /\ events[1] = log[4]

AllReturned == \A p \in Procs : pc[p] = "done"

\* C2: concurrent Replace calls of one identity category on a store holding
\* zero or one event of it: once all calls have returned exactly one event of
\* the category is stored, with the greatest created_at among the incumbent and
\* the calls' events.
C2_ConcurrentReplace ==
    AllReturned =>
        LET now == {i \in Occupied(events) : events[i] \in ConcEvents}
            given == {last.pre.events[i].created_at :
                         i \in {j \in Occupied(last.pre.events) :
                                   last.pre.events[j] \in ConcEvents}}
                     \cup {arg[p].created_at : p \in Procs}
        IN /\ Cardinality(now) = 1
           /\ \A i \in now : events[i].created_at = SetMax(given)

\* C2 witness: every call has returned, on a store that held no event of the
\* category and an event of another one, the calls passing different events.
C2_Witness ==
    /\ AllReturned
    /\ \A i \in Occupied(last.pre.events) : last.pre.events[i] \notin ConcEvents
    /\ Size(last.pre.events) > 0
    /\ capacity > 1
    /\ \A p, q \in Procs : p # q => arg[p].id # arg[q].id
    /\ \E p \in Procs : loc[p].stored /\ loc[p].pos # 0

\* C3: two concurrent Replace calls of one identity category on a table holding
\* zero or one row of it, the lookup and the write being separate engine steps:
\* once both calls have returned exactly one row of the category is stored.
C3_ExactlyOneSurvives ==
    AllReturned => Cardinality(table \cap ConcEvents) = 1

\* The pre-state of C5: the table held exactly one row of the category of the
\* event passed, under another id, the category being one the lookup can find.
ReplacedOne(old) ==
    /\ last.op = "Replace"
    /\ ~Rejected(validateEvent, last.ev)
    /\ IsReplaceableKind(last.ev.kind) \/ (IsAddressableKind(last.ev.kind) /\ last.ev.d # NoD)
    /\ {x \in last.pre : Category(x) = Category(last.ev)} = {old}
    /\ old.id # last.ev.id

\* C5: with one event old of the category stored, Replace(new) of the same
\* category and another id returns stored = (new.created_at > old.created_at),
\* and a query of the ids of old and new with limit 2 then returns exactly new
\* when stored and old when not.
C5_SequentialReplace ==
    \A old \in Events :
        ReplacedOne(old) =>
            /\ last.err = "nil"
            /\ last.stored = (last.ev.created_at > old.created_at)
            /\ SqliteQuery(table, <<FIds({old.id, last.ev.id})>>)
                 = [events |-> <<IF last.stored THEN last.ev ELSE old>>, err |-> "nil"]

\* C5 witness: a newer event has replaced the one stored event of its category
\* in a table that holds rows of other categories as well.
C5_Witness ==
    \E old \in Events :
        /\ ReplacedOne(old)
        /\ last.stored
        /\ Cardinality(last.pre) > 1

\* C6: the badger Replace returns stored = true and no error when the event is
\* saved, superseding or not an older one of its category, and stored = false
\* and no error when the engine blocks it.
C6_ReplaceReportsStored ==
    (last.op = "Replace" /\ last.err = "nil") =>
        /\ (last.ev \in kv /\ last.ev \notin last.pre) => last.stored = TRUE
        /\ kv = last.pre => last.stored = FALSE

\* The number of times x occurs in seq.
Occurrences(seq, x) == Cardinality({i \in 1..Len(seq) : seq[i] = x})

\* No filter of fs matches more stored events than its limit.
LimitsNotReached(evs, fs) ==
    \A j \in 1..Len(fs) : Len(MatchesOf(evs, fs[j])) <= fs[j].limit

C12_CanonicalOrder ==
    (last.op = "Query" /\ last.err = "nil") =>
        \A k \in 1..(Len(last.result) - 1) :
            \/ last.result[k].created_at > last.result[k + 1].created_at
            \/ /\ last.result[k].created_at = last.result[k + 1].created_at
               /\ last.result[k].id <= last.result[k + 1].id

\* C13: Query returns no more events than the sum of the limits of its filters
\* (each of them set), and of the events a filter matches at least as many as
\* its limit allows, whatever the filters before it have collected.
C13_LimitBounded ==
    (/\ last.op = "Query"
     /\ last.err = "nil"
     /\ sanitizeFilters = "custom"
     /\ \A j \in 1..Len(last.filters) : last.filters[j].limit >= 1) =>
        /\ Len(last.result) <= SumLimits(last.filters)
        /\ \A j \in 1..Len(last.filters) :
              Len(MatchesOf(last.result, last.filters[j]))
                  >= Min(last.filters[j].limit, Len(MatchesOf(events, last.filters[j])))

\* C14: for a list of one or more filters whose matches do not exceed their
\* limits, Count of the list equals the number of events Query returns for it.
C14_QueryCountAgree ==
    (/\ last.op = "Query"
     /\ last.err = "nil"
     /\ Len(last.filters) >= 1
     /\ LimitsNotReached(events, last.filters)) =>
        RingCount(Here, last.filters) = Len(last.result)

\* The pairs of a filter of fs and a stored event (a slot of the ring buffer, a
\* row of the table) that it matches.
SlotMatches(evs, fs) ==
    {<<j, i>> \in (1..Len(fs)) \X Occupied(evs) : Matches(fs[j], evs[i])}

RowMatches(t, fs) ==
    {<<j, e>> \in (1..Len(fs)) \X t : Matches(fs[j], e)}

RowMatchesNoZero(t, fs) ==
    {<<j, e>> \in (1..Len(fs)) \X t : ~fs[j].limitZero /\ Matches(fs[j], e)}

\* C15: Count returns the sum over its filters of the number of stored events
\* the filter matches, an event matching k filters counting k times, in the
\* ring buffer and in the sqlite store.
C15_CountSumsAllFilters ==
    /\ last.op = "Count" => last.n = Cardinality(SlotMatches(events, last.filters))
    /\ last.op = "sqlite.Count" => last.n = Cardinality(RowMatches(table, last.filters))

\* C15 as the code has it: the sqlite count plan has a sub-plan for each filter
\* that does not have LimitZero set, and only those filters are summed.
C15_CountSumsLiveFilters ==
    /\ last.op = "Count" => last.n = Cardinality(SlotMatches(events, last.filters))
    /\ last.op = "sqlite.Count" =>
          /\ last.err = "nil"
          /\ last.n = Cardinality(RowMatchesNoZero(table, last.filters))

\* C15 witness: a count of two filters that both match a stored event, which
\* is counted twice, in a state where the other store holds events too.
C15_Witness ==
    /\ last.op \in {"Count", "sqlite.Count"}
    /\ Len(last.filters) = 2
    /\ last.filters[1] # last.filters[2]
    /\ Size(events) > 0
    /\ \E e \in table : Matches(last.filters[1], e) /\ Matches(last.filters[2], e)
    /\ \E i \in Occupied(events) :
          Matches(last.filters[1], events[i]) /\ Matches(last.filters[2], events[i])
    /\ last.n >= 2

\* C16: an empty filter list is rejected: the sqlite Store.Query and
\* Store.Count, through their compilers, return an error for zero filters.
C16_EmptyFiltersRejected ==
    (last.op \in {"Query", "sqlite.Count"} /\ last.filters = <<>>) => last.err # "nil"

\* C17: Save and Resize never fail: after any sequence of Save, Replace, Delete
\* and Resize(n), n >= 1, the cursor is a valid slot, 0 <= write < capacity =
\* number of slots, and no call has panicked.
C17_CursorInRange ==
    /\ ~crashed
    /\ 0 <= write
    /\ write < capacity
    /\ capacity = Len(events)

\* The index of the i-th occupied slot of evs.
NthOccupied(evs, i) ==
    CHOOSE j \in Occupied(evs) : Cardinality({m \in Occupied(evs) : m < j}) = i - 1

\* C18: Resize(n) on k occupied slots keeps the first min(k, n) occupied events
\* in slots 0..min(k, n)-1 in their order and drops the rest; then the capacity
\* is n, the size min(k, n), and the cursor is just past the last kept slot.
C18_ResizeKeepsFirst ==
    last.op = "Resize" =>
        LET k == Size(last.pre.events)
            m == Min(k, last.n)
        IN /\ capacity = last.n
           /\ Len(events) = last.n
           /\ Size(events) = m
           /\ \A i \in 1..m : events[i] = last.pre.events[NthOccupied(last.pre.events, i)]
           /\ \A i \in (m + 1)..last.n : events[i] = Nil
           /\ write = m

\* C18 witness: a Resize that dropped an event, and kept one.
C18_Witness ==
    /\ last.op = "Resize"
    /\ Size(last.pre.events) > last.n
    /\ last.pre.events[1] # last.pre.events[2]
    /\ Size(events) = last.n

SetMin(S) == CHOOSE x \in S : \A y \in S : x <= y

\* C19: Delete(id) empties the first occupied slot holding the id and leaves
\* every other slot, the cursor and the capacity as they were; with no such
\* slot nothing changes; it returns nil.
C19_DeleteFrame ==
    last.op = "Delete" =>
        LET holding == {i \in Occupied(last.pre.events) : last.pre.events[i].id = last.id}
        IN /\ last.err = "nil"
           /\ write = last.pre.write
           /\ capacity = last.pre.capacity
           /\ Len(events) = Len(last.pre.events)
           /\ \A i \in 1..Len(events) :
                 events[i] = IF holding # {} /\ i = SetMin(holding)
                             THEN Nil ELSE last.pre.events[i]

\* C19 witness: a Delete of an id two slots held: the first is emptied, the
\* second still holds the event.
C19_Witness ==
    /\ last.op = "Delete"
    /\ Cardinality({i \in Occupied(last.pre.events) : last.pre.events[i].id = last.id}) = 2
    /\ Size(events) = 1

\* C20: no write takes effect between the first and the last slot read of a
\* Query: the result of every Query is its result on one state the buffer had
\* between the call and the return.
C20_QueryOnOneState ==
    (pc[Reader] = "done" /\ last.op = "Query" /\ last.err = "nil") =>
        \E k \in 1..Len(log) :
            last.result \in SortOutcomes(Collect(log[k], last.filters))

\* The place in the order of calls at which stored event x entered the buffer.
EnteredAt(x) == CHOOSE k \in 1..Len(log) : log[k].ev = x

\* The last call wrote at the cursor (a Save, or a Replace that found no
\* candidate) over an occupied slot.
Overwrote ==
    /\ last.op \in {"Save", "Replace"}
    /\ last.err = "nil"
    /\ last.op = "Replace" => (last.stored /\ FirstCandidate(last.pre.events, last.ev) = 0)
    /\ last.pre.events[last.pre.write + 1] # Nil

\* Every slot was occupied and the overwritten event had entered the buffer
\* before every other stored one.
OverwroteOldestOnOverflow ==
    /\ Size(last.pre.events) = last.pre.capacity
    /\ \A i \in Occupied(last.pre.events) :
          EnteredAt(last.pre.events[last.pre.write + 1]) <= EnteredAt(last.pre.events[i])

\* C21: after any sequence of Save, Delete, Replace and Resize, a write at the
\* cursor that overwrites an occupied slot finds every slot occupied and
\* overwrites the event that entered the buffer earliest.
C21_EvictsOldestAlways == Overwrote => OverwroteOldestOnOverflow

\* C21 for steady insertion: the same after any sequence of Saves alone.
C21_EvictsOldestUnderSaves ==
    (Overwrote /\ \A k \in 1..Len(log) : log[k].op = "Save") => OverwroteOldestOnOverflow

\* C21 witness: after Saves alone, a Save overwrote an event in a buffer of
\* more than one slot.
C21_Witness ==
    /\ Overwrote
    /\ \A k \in 1..Len(log) : log[k].op = "Save"
    /\ capacity > 1

\* C22: Save and Replace call the configured event policy before writing: when
\* the policy rejects the event the call returns the policy's error, Replace
\* with stored = false, and nothing is written. Stated on the badger store.
C22_PolicyBeforeWrite ==
    (last.op \in {"Save", "Replace"} /\ Rejected(validateEvent, last.ev)) =>
        /\ last.err = "policy"
        /\ last.stored = FALSE
        /\ kv = last.pre

\* C23: for two filters of positive limits, the sqlite plan for (f1, f2)
\* returns the events of the plan for f1 alone and of the plan for f2 alone,
\* each once, in canonical order.
C23_PlanIsUnionOfPlans ==
    (/\ last.op = "Query"
     /\ last.err = "nil"
     /\ Len(last.filters) = 2
     /\ \A j \in 1..2 : ~last.filters[j].limitZero /\ last.filters[j].limit >= 1) =>
        LET q1 == SqliteQuery(table, <<last.filters[1]>>).events
            q2 == SqliteQuery(table, <<last.filters[2]>>).events
        IN last.result = OrderRows(Elems(q1) \cup Elems(q2))

\* C24: the condition compiled for the sqlite store selects exactly the events
\* Filter.Matches accepts, those carrying every tag the filter names with one
\* of its values.
C24_TagsAndAcrossNames ==
    (last.op = "Query" /\ last.err = "nil") =>
        Elems(last.result) = {e \in table : TagMatches(last.filters[1], e)}

\* C25: the sqlite Query returns no partial results: with an error it returns
\* no events.
C25_NoPartialResults ==
    (last.op = "Query" /\ last.err # "nil") => last.result = <<>>

\* The attempts and the sleeps of the call of withRetries under way or last
\* returned.
Attempts == {k \in 1..Len(log) : log[k] # "sleep"}

Sleeps == {k \in 1..Len(log) : log[k] = "sleep"}

Returned == pc[1] = "idle" /\ log # <<>> /\ last.op = "Save"

\* C26: withRetries runs the operation at most retries + 1 times, sleeping
\* between consecutive attempts only; when every attempt reports lock
\* contention it returns the terminal error after exactly retries + 1 attempts
\* and retries sleeps, none after the last attempt.
C26_RetriesBounded ==
    /\ Cardinality(Attempts) <= retries + 1
    /\ \A k \in 1..Len(log) : (log[k] = "sleep") = (k % 2 = 0)
    /\ pc[1] = "sleep" => loc[1].i < retries
    /\ (Returned /\ \A k \in Attempts : log[k] = Locked) =>
          /\ last.err = "database is locked: performed attempts"
          /\ last.n = retries + 1
          /\ Cardinality(Attempts) = retries + 1
          /\ Cardinality(Sleeps) = retries
          /\ log[Len(log)] # "sleep"

\* C26 witness: a call built with retries > 0 has returned the terminal error.
C26_Witness ==
    /\ Returned
    /\ retries > 0
    /\ \A k \in Attempts : log[k] = Locked
    /\ last.err = "database is locked: performed attempts"

\* C27: withRetries retries nothing but lock contention: every attempt but the
\* last reported lock contention, and a success or another error is returned
\* from the attempt on which it occurred, the operation not run again.
C27_OnlyLockRetried ==
    /\ \A k \in 1..(Len(log) - 1) : log[k] \in {Locked, "sleep"}
    /\ (log # <<>> /\ log[Len(log)] \in {"nil", Structural}) =>
          /\ Returned
          /\ last.err = log[Len(log)]
          /\ (log[Len(log)] = Structural) => table = last.pre

\* C27 witness: a structural error returned on the second attempt, the first
\* having met lock contention.
C27_Witness ==
    /\ Returned
    /\ log = <<Locked, "sleep", Structural>>
    /\ last.err = Structural

\* The call of Count last returned and its goroutines have all finished.
CountSettled == main = "returned" /\ Quiescent /\ last.op = "Count"

RECURSIVE SumOfCounts(_, _)
SumOfCounts(s, fs) ==
    IF fs = <<>> THEN 0 ELSE CountEvents(s, Head(fs)) + SumOfCounts(s, Tail(fs))

\* C28: the badger Count reads the counter only after all its goroutines have
\* finished, and when each of them succeeded it returns the sum of the
\* per-filter counts.
C28_CountJoinsBeforeSumming ==
    (last.op = "Count" /\ main = "returned") =>
        /\ \A p \in 1..Len(last.filters) : last.result[p] = "finished"
        /\ (Quiescent /\ \A p \in Tasks : loc[p] = "nil") =>
               last.n = SumOfCounts(last.pre, last.filters)

\* C29: the badger Count returns an error when the conversion or the counting
\* of one of its filters failed.
C29_CountReportsFailure ==
    (CountSettled /\ \E p \in Tasks : loc[p] # "nil") => last.err # "nil"

\* Some filter of fs has LimitZero unset and a Limit below 1.
Unspecified(fs) == \E i \in 1..Len(fs) : ~fs[i].limitZero /\ fs[i].limit < 1

\* C30: DefaultFilterPolicy returns ErrUnspecifiedLimit and no filters exactly
\* when some input filter has LimitZero unset and Limit < 1; otherwise it
\* returns, with a nil error, the input filters with LimitZero unset, in input
\* order and unmodified, each of Limit >= 1.
C30_DefaultFilterPolicy ==
    last.op = "DefaultFilterPolicy" =>
        /\ (last.err = "ErrUnspecifiedLimit") = Unspecified(last.filters)
        /\ Unspecified(last.filters) => last.result = <<>>
        /\ ~Unspecified(last.filters) =>
              /\ last.err = "nil"
              /\ last.result = SelectSeq(last.filters, LAMBDA f : ~f.limitZero)
              /\ \A k \in 1..Len(last.result) : last.result[k].limit >= 1

\* C30 witness: a LimitZero filter dropped from between two different filters
\* that are kept.
C30_Witness ==
    /\ last.op = "DefaultFilterPolicy"
    /\ last.err = "nil"
    /\ Len(last.filters) = 3
    /\ last.filters[2].limitZero
    /\ last.result = <<last.filters[1], last.filters[3]>>
    /\ last.filters[1] # last.filters[3]

RECURSIVE SumOfLimits(_)
SumOfLimits(fs) == IF fs = <<>> THEN 0 ELSE Head(fs).limit + SumOfLimits(Tail(fs))

\* C31: when Validate returns nil on n >= 1 filters, every filter is left with
\* 1 <= Limit <= MaxLimit and the limits sum to at most MaxLimit.
C31_LimitsResolvedPositive ==
    (last.op = "Validate" /\ last.err = "nil") =>
        /\ \A k \in 1..Len(last.result) :
              1 <= last.result[k].limit /\ last.result[k].limit <= last.n
        /\ SumOfLimits(last.result) <= last.n

\* The completed calls of kind op in a log of the saver and the deleter.
Completed(l, op) == Cardinality({k \in 1..Len(l) : l[k].op = op})

\* C32: when no more Saves than the capacity have been made and every Delete
\* found its event, the number of occupied slots read under the read lock is
\* the number of completed Saves minus the number of completed Deletes.
C32_SizeIsSavesMinusDeletes ==
    (/\ last.op = "Size"
     /\ Completed(last.result, "Save") <= capacity
     /\ \A k \in 1..Len(last.result) : last.result[k].found) =>
        last.n = Completed(last.result, "Save") - Completed(last.result, "Delete")

\* C32 witness: the checker reads one occupied slot after two Saves and a
\* Delete have completed.
C32_Witness ==
    /\ last.op = "Size"
    /\ last.n = 1
    /\ Completed(last.result, "Save") = 2
    /\ Completed(last.result, "Delete") = 1
    /\ \A k \in 1..Len(last.result) : last.result[k].found

\* C33: converting an event to the engine's form and back yields the event,
\* whatever its kind.
C33_ConversionLossless ==
    last.op = "Save;Query" => last.result = <<last.ev>>

\* C34: a Replace of a valid-kind event the policy accepts, on a buffer holding
\* no event of its identity category, writes the event at the cursor, advances
\* the cursor by one modulo the capacity and returns stored=true.
C34_ReplaceWithoutIncumbentSaves ==
    (/\ last.op = "Replace"
     /\ KindIsReplaceableOrAddressable(last.ev.kind)
     /\ ~Rejected(validateEvent, last.ev)
     /\ FirstCandidate(last.pre.events, last.ev) = 0) =>
        /\ last.stored
        /\ last.pre.write < Len(last.pre.events)
        /\ Here = Store([last.pre.events EXCEPT ![last.pre.write + 1] = last.ev],
                        (last.pre.write + 1) % last.pre.capacity, last.pre.capacity)

\* C35: a Replace that supersedes a strictly older incumbent writes the event
\* into the incumbent's slot, leaves the cursor, the other slots and Size() as
\* they were, leaves the old event stored nowhere and returns stored=true.
C35_ReplaceInPlace ==
    LET i == FirstCandidate(last.pre.events, last.ev) IN
    (/\ last.op = "Replace"
     /\ last.err = "nil"
     /\ i # 0
     /\ last.pre.events[i].created_at < last.ev.created_at) =>
        /\ last.stored
        /\ Here = Store([last.pre.events EXCEPT ![i] = last.ev],
                        last.pre.write, last.pre.capacity)
        /\ Size(events) = Size(last.pre.events)
        /\ last.pre.events[i] \notin StoredSet(events)

\* C36: immediately after Delete(id) returns no occupied slot holds an event
\* with that id.
C36_DeleteRemoves ==
    last.op = "Delete" => IndexOfId(events, last.id) = 0

\* The number of placeholders of a query text.
Placeholders(sql) == Cardinality({k \in 1..Len(sql) : sql[k] = "?"})

\* The arguments of one filter in the order of its conditions: ids, kinds,
\* authors, until, since, then each tag name followed by its values.
OwnArgs(f, names) ==
    AsSeq(f.ids) \o AsSeq(f.kinds) \o AsSeq(f.authors)
    \o (IF f.until = NoTime THEN <<>> ELSE <<f.until>>)
    \o (IF f.since = NoTime THEN <<>> ELSE <<f.since>>)
    \o (IF names = <<>> THEN <<>>
        ELSE <<names[1]>> \o AsSeq(TagValues(f, names[1]))
             \o (IF Len(names) = 1 THEN <<>>
                 ELSE <<names[2]>> \o AsSeq(TagValues(f, names[2]))))

RECURSIVE AllOwnArgs(_, _)
AllOwnArgs(fs, firsts) ==
    IF fs = <<>> THEN <<>>
    ELSE OwnArgs(Head(fs), TagOrder(Head(fs), Head(firsts)))
         \o AllOwnArgs(Tail(fs), Tail(firsts))

\* The plan built for the filters fs is one query with as many placeholders as
\* arguments, the arguments being those of fs in order and then the sum of the
\* limits of fs (the limit itself for one filter).
OnePlanFor(fs, plans) ==
    /\ Len(plans) = 1
    /\ Placeholders(plans[1].SQL) = Len(plans[1].Args)
    /\ \E firsts \in [1..Len(fs) -> {"d", "e"}] :
          plans[1].Args = Append(AllOwnArgs(fs, firsts), SumOfLimits(fs))

\* C37 as stated: for every list of n >= 1 filters DefaultQueryBuilder emits one
\* plan with the arguments of all the filters and the sum of all their limits.
C37_OnePlanForAllFilters ==
    (last.op = "DefaultQueryBuilder" /\ Len(last.filters) >= 1) =>
        OnePlanFor(last.filters, last.result)

\* C37 amended: the plan is built for the filters with LimitZero unset: one
\* plan when there are any, with their arguments and the sum of their limits,
\* and no plan when there are none.
C37_OnePlanForLiveFilters ==
    last.op = "DefaultQueryBuilder" =>
        LET live == SelectSeq(last.filters, LAMBDA f : ~f.limitZero) IN
        IF live = <<>> THEN last.result = <<>> ELSE OnePlanFor(live, last.result)

\* C37 witness: a plan for two filters, one of them naming two tags, built from
\* a list that also holds a LimitZero filter.
C37_Witness ==
    /\ last.op = "DefaultQueryBuilder"
    /\ Len(last.filters) = 3
    /\ Len(SelectSeq(last.filters, LAMBDA f : ~f.limitZero)) = 2
    /\ \E i \in 1..3 : ~last.filters[i].limitZero /\ Cardinality(TagNames(last.filters[i])) = 2
    /\ Len(last.result) = 1

\* A Replace of the followed category has just returned, a Replace having
\* stored an event of the category before it.
ReplacedAgain ==
    /\ last.op = "Replace"
    /\ last.ev \in StaleEvents
    /\ last.result # <<>>

\* C38 as stated: once a Replace has stored an event with created_at t in a
\* category, no later Replace in the category with created_at <= t returns
\* stored=true, whatever Saves and Replaces of other categories come between.
C38_NoStaleAfterAnySaves ==
    (ReplacedAgain /\ last.ev.created_at <= last.result[1].ever) => ~last.stored

\* C38 amended: the same while the stored event, or the events that superseded
\* it in its slot, have not been overwritten by an insertion at the cursor.
C38_NoStaleWhileStored ==
    (/\ ReplacedAgain
     /\ last.result[1].slot # 0
     /\ last.ev.created_at <= last.result[1].t) => ~last.stored

\* C38 witness: a Replace with the created_at of the stored event of its
\* category is refused on a full buffer that also holds another event.
C38_Witness ==
    /\ ReplacedAgain
    /\ last.result[1].slot # 0
    /\ last.ev.created_at = last.result[1].t
    /\ ~last.stored
    /\ capacity > 1
    /\ Size(events) = capacity

\* C39: Replace calls of addressable events without a d tag keep at most one
\* stored event per kind and author, as they do in the ring buffer.
C39_OneUntaggedPerAuthor ==
    \A x, y \in table :
        (/\ IsAddressableKind(x.kind) /\ x.d = NoD /\ y.d = NoD
         /\ x.kind = y.kind /\ x.pubkey = y.pubkey) => x = y

\* C40: Save, Replace, Delete, Query or Count called with a cancelled context
\* returns at entry: it reports the cancellation, returns no event and no
\* count, and leaves the buffer as it was.
C40_CancelledAtEntry ==
    (/\ last.op \in {"Save", "Replace", "Delete", "Query", "Count"}
     /\ last.ctx = "cancelled") =>
        /\ last.err # "nil"
        /\ last.result = <<>>
        /\ last.n = 0
        /\ ~last.stored
        /\ Here = last.pre

====
